---- MODULE Spec2Model ----
(***************************************************************************)
(* dnss: DNS front-end (Server.Handler), TTL-decaying cache                *)
(* (cachingResolver) and DomainMap, modelled from the Go sources.          *)
(***************************************************************************)
EXTENDS Integers, Sequences, FiniteSets, Bags, TLC

(***************************************************************************)
(* Bounds of the model.                                                    *)
(***************************************************************************)
\* Number of goroutines serving requests concurrently.
NumProcs == 2
\* Requests the front-end receives in one behaviour.
MaxRequests == 2
\* Direct calls of cachingResolver.Query in one behaviour.
MaxCalls == 3
\* Maintenance sweeps one cache entry lives through in the model.
MaxTicks == 4
\* Largest value the tests' tweak of maxCacheSize takes in the model.
MaxCacheSizeBound == 2
\* Largest request / upstream ID (the code's IDs are uint16).
MaxID == 2
\* Capacity of the newID channel in the model (the code buffers 100).
NewIDCap == 1
\* Goroutines of Server.Handler that come to take an ID from newID.
NumHandlers == 3
\* Calls of DomainMap.Set in one behaviour.
MaxSets == 3
\* The last second of the clock (two rotations, each after more than 10 s of
\* failures, fit in).
MaxTime == 24

IDs == 1..MaxID

StatNames == {"cacheTotal", "cacheBypassed", "cacheHits", "cacheMisses", "cacheRecorded"}

\* expvar.Int.Add(1) on the counter f.
Add(st, f) == [st EXCEPT ![f] = @ + 1]

\* The counter of each way a Query goes after the lookup.
StatOf == [bypass |-> "cacheBypassed", hit |-> "cacheHits", miss |-> "cacheMisses"]

\* A counting that leaves cacheTotal out when the lookup hits.
CountNoTotalOnHit(st, kind) ==
  IF kind = "hit" THEN Add(st, StatOf[kind]) ELSE Add(Add(st, "cacheTotal"), StatOf[kind])

\* The counters after Query has counted a call that goes the way kind.
Count(st, kind) == Add(Add(st, "cacheTotal"), StatOf[kind])

(***************************************************************************)
(* Tuning constants of the cache, in seconds.                              *)
(***************************************************************************)
minTTL == 120
maxTTL == 7200
maintenancePeriod == 30

(***************************************************************************)
(* Strings are sequences of one-character strings.                         *)
(***************************************************************************)
Dot == "."

UpperChars == <<"A","B","C","D","E","F","G","H","I","J","K","L","M",
                "N","O","P","Q","R","S","T","U","V","W","X","Y","Z">>
LowerChars == <<"a","b","c","d","e","f","g","h","i","j","k","l","m",
                "n","o","p","q","r","s","t","u","v","w","x","y","z">>

\* strings.ToLower on one ASCII character.
ToLowerChar(c) ==
  IF \E i \in 1..26 : UpperChars[i] = c
  THEN LowerChars[CHOOSE i \in 1..26 : UpperChars[i] = c]
  ELSE c

ToLower(s) == [i \in 1..Len(s) |-> ToLowerChar(s[i])]

\* dns.Fqdn: append the trailing dot when missing.
Fqdn(s) == IF Len(s) > 0 /\ s[Len(s)] = Dot THEN s ELSE s \o <<Dot>>

\* dns.CanonicalName: lower-cased, fully qualified.
CanonicalName(s) == ToLower(Fqdn(s))

RECURSIVE LabelsFrom(_, _, _)
LabelsFrom(s, i, cur) ==
  IF i > Len(s) THEN (IF cur = <<>> THEN <<>> ELSE <<cur>>)
  ELSE IF s[i] = Dot THEN <<cur>> \o LabelsFrom(s, i + 1, <<>>)
  ELSE LabelsFrom(s, i + 1, Append(cur, s[i]))

\* dns.SplitDomainName: the labels of a name, the root has none.
SplitDomainName(s) == IF s = <<Dot>> \/ s = <<>> THEN <<>> ELSE LabelsFrom(s, 1, <<>>)

\* dns.CountLabel.
CountLabel(s) == Len(SplitDomainName(s))

RECURSIVE CommonTail(_, _, _)
CommonTail(l1, l2, k) ==
  IF k >= Len(l1) \/ k >= Len(l2) THEN k
  ELSE IF ToLower(l1[Len(l1) - k]) = ToLower(l2[Len(l2) - k])
       THEN CommonTail(l1, l2, k + 1)
       ELSE k

\* dns.CompareDomainName: number of labels the names share from the right.
CompareDomainName(s1, s2) ==
  IF s1 = <<Dot>> \/ s2 = <<Dot>> THEN 0
  ELSE CommonTail(SplitDomainName(s1), SplitDomainName(s2), 0)

\* dns.IsSubDomain(parent, child).
IsSubDomain(parent, child) == CompareDomainName(parent, child) = CountLabel(parent)

(***************************************************************************)
(* DomainMap: a function from canonical names to values.                   *)
(***************************************************************************)
EmptyMap == [d \in {} |-> ""]

\* A Set that stores the domain as given, not its canonical form.
SetAsGiven(m, domain, value) ==
  [d \in DOMAIN m \cup {domain} |-> IF d = domain THEN value ELSE m[d]]

\* DomainMap.Set
Set(m, domain, value) ==
  [d \in DOMAIN m \cup {CanonicalName(domain)} |->
     IF d = CanonicalName(domain) THEN value ELSE m[d]]

\* DomainMap.GetExact
GetExact(m, domain) ==
  IF CanonicalName(domain) \in DOMAIN m
  THEN [v |-> m[CanonicalName(domain)], ok |-> TRUE]
  ELSE [v |-> "", ok |-> FALSE]

RECURSIVE MostSpecificLoop(_, _, _, _)
MostSpecificLoop(m, keys, domain, acc) ==
  IF keys = {} THEN acc
  ELSE LET d == CHOOSE k \in keys : TRUE
           c == CountLabel(d)
           nacc == IF IsSubDomain(d, domain) /\ c > acc.mc
                   THEN [mc |-> c, mv |-> m[d], ok |-> TRUE]
                   ELSE acc
       IN MostSpecificLoop(m, keys \ {d}, domain, nacc)

\* DomainMap.GetMostSpecific
GetMostSpecific(m, domain) ==
  LET res == MostSpecificLoop(m, DOMAIN m, CanonicalName(domain),
                              [mc |-> 0, mv |-> "", ok |-> FALSE])
  IN [v |-> res.mv, ok |-> res.ok]

(***************************************************************************)
(* DomainMapFromString, on strings as sequences of characters.             *)
(***************************************************************************)
Space == " "
Comma == ","
Colon == ":"

\* The index of the first sep in s, 0 if there is none (strings.Index).
Index(s, sep) ==
  IF \E i \in 1..Len(s) : s[i] = sep
  THEN CHOOSE i \in 1..Len(s) : s[i] = sep /\ \A j \in 1..(i - 1) : s[j] # sep
  ELSE 0

\* strings.Split(s, sep): the pieces of s between the seps; <<s>> without one.
RECURSIVE Split(_, _)
Split(s, sep) ==
  IF Index(s, sep) = 0 THEN <<s>>
  ELSE <<SubSeq(s, 1, Index(s, sep) - 1)>>
         \o Split(SubSeq(s, Index(s, sep) + 1, Len(s)), sep)

\* A SplitN that cuts at every sep, whatever the count asked for.
SplitNAll(s, sep, n) == Split(s, sep)

\* strings.SplitN(s, sep, n) for n = 2: at most two pieces, cut at the first sep.
SplitN(s, sep, n) ==
  IF Index(s, sep) = 0 THEN <<s>>
  ELSE <<SubSeq(s, 1, Index(s, sep) - 1), SubSeq(s, Index(s, sep) + 1, Len(s))>>

\* strings.TrimSpace: leading and trailing white space removed.
RECURSIVE TrimLeft(_)
TrimLeft(s) == IF Len(s) > 0 /\ s[1] = Space THEN TrimLeft(Tail(s)) ELSE s
RECURSIVE TrimRight(_)
TrimRight(s) ==
  IF Len(s) > 0 /\ s[Len(s)] = Space THEN TrimRight(SubSeq(s, 1, Len(s) - 1))
  ELSE s
TrimSpace(s) == TrimRight(TrimLeft(s))

\* The result of DomainMapFromString: a map, or no map (nil) and an error.
Parsed(m) == [m |-> m, nil |-> FALSE, err |-> FALSE]
errInvalidFormat == [m |-> EmptyMap, nil |-> TRUE, err |-> TRUE]

\* The loop of DomainMapFromString over the pairs not yet seen.
RECURSIVE FromPairs(_, _)
FromPairs(pairs, m) ==
  IF pairs = <<>> THEN Parsed(m)
  ELSE LET pair == TrimSpace(Head(pairs))
           xs == SplitN(pair, Colon, 2)
       IN IF pair = <<>> THEN FromPairs(Tail(pairs), m)
          ELSE IF Len(xs) # 2 THEN errInvalidFormat
          ELSE FromPairs(Tail(pairs),
                         Set(m, TrimSpace(xs[1]), TrimSpace(xs[2])))

\* A parser that stops after the first item.
DomainMapFromStringFirst(s) == FromPairs(<<Head(Split(s, Comma))>>, EmptyMap)

DomainMapFromString(s) == FromPairs(Split(s, Comma), EmptyMap)

\* The text "domain1:addr1,domain2:addr2,..." of a map, its keys taken in the
\* given order.
RECURSIVE Serialize(_, _)
Serialize(m, order) ==
  IF order = <<>> THEN <<>>
  ELSE Head(order) \o <<Colon>> \o m[Head(order)]
         \o (IF Len(order) > 1 THEN <<Comma>> \o Serialize(m, Tail(order))
             ELSE <<>>)

\* The orders in which a map's keys can be ranged over.
KeyOrders(m) ==
  {o \in [1..Cardinality(DOMAIN m) -> DOMAIN m] :
     \A i, j \in 1..Cardinality(DOMAIN m) : o[i] = o[j] => i = j}

(***************************************************************************)
(* Bytes, base64 and the DNS wire format, for the DoH server.              *)
(* A byte is a number in 0..255 and a message on the wire a sequence of    *)
(* bytes.  A character of a base64 text is the index (0..63) of the        *)
(* character in the URL-safe alphabet; the padding character, the new line *)
(* and the exclamation mark, which are not of the alphabet, are 64 to 66.  *)
(***************************************************************************)
Pad == 64
Newline == 65
Bang == 66

\* The number made of the three bytes of group g of b, missing bytes as 0.
Group24(b, g) ==
  b[3 * g + 1] * 65536
    + (IF 3 * g + 2 <= Len(b) THEN b[3 * g + 2] * 256 ELSE 0)
    + (IF 3 * g + 3 <= Len(b) THEN b[3 * g + 3] ELSE 0)

\* base64.RawURLEncoding.EncodeToString: four characters for every three
\* bytes, two or three for a last group of one or two bytes, no padding.
EncodeToString(b) ==
  [i \in 1..((Len(b) * 8 + 5) \div 6) |->
     LET g == (i - 1) \div 4
         k == (i - 1) % 4
     IN (Group24(b, g) \div (IF k = 0 THEN 262144 ELSE IF k = 1 THEN 4096
                             ELSE IF k = 2 THEN 64 ELSE 1)) % 64]

\* The number made of the four characters of group g of s, missing ones as 0.
Group24Of(s, g) ==
  s[4 * g + 1] * 262144
    + (IF 4 * g + 2 <= Len(s) THEN s[4 * g + 2] * 4096 ELSE 0)
    + (IF 4 * g + 3 <= Len(s) THEN s[4 * g + 3] * 64 ELSE 0)
    + (IF 4 * g + 4 <= Len(s) THEN s[4 * g + 4] ELSE 0)

IsDigit64(c) == c \in 0..63
NotNewline(c) == c # Newline

\* A decoder that takes any text for the empty message.
DecodeStringEmpty(s) == [err |-> FALSE, b |-> <<>>]

\* The bytes of a text t of characters of the alphabet: three for every four
\* characters, one or two for a last group of two or three; the bits left
\* over in the last group are dropped.
DecodeQuanta(t) ==
  [j \in 1..((Len(t) \div 4) * 3
               + (IF Len(t) % 4 = 2 THEN 1 ELSE IF Len(t) % 4 = 3 THEN 2 ELSE 0)) |->
     (Group24Of(t, (j - 1) \div 3)
        \div (IF (j - 1) % 3 = 0 THEN 65536 ELSE IF (j - 1) % 3 = 1 THEN 256 ELSE 1))
       % 256]

\* base64.RawURLEncoding.DecodeString: new lines are skipped; a character not
\* of the alphabet (padding included) or a last group of one character is an
\* error.  (t is the text without its new lines, computed once.)
DecodeString(s) ==
  CHOOSE d \in { IF (\E i \in 1..Len(t) : ~IsDigit64(t[i])) \/ Len(t) % 4 = 1
                 THEN [err |-> TRUE, b |-> <<>>]
                 ELSE [err |-> FALSE, b |-> SubSeq(DecodeQuanta(t), 1, Len(DecodeQuanta(t)))]
                 : t \in {SelectSeq(s, NotNewline)} } : TRUE

\* Big-endian numbers on the wire; off counts the bytes before the field.
Uint16At(msg, off) == msg[off + 1] * 256 + msg[off + 2]
Uint32At(msg, off) == Uint16At(msg, off) * 65536 + Uint16At(msg, off + 2)
PackUint16(n) == <<n \div 256, n % 256>>
PackUint32(n) == PackUint16(n \div 65536) \o PackUint16(n % 65536)

HeaderSize == 12
MaxLabel == 63

\* dns.UnpackDomainName, for names written without compression: the labels
\* from off up to the empty label; an error when the message ends before.
\* A length byte above 63 (a compression pointer among them) is an error here.
RECURSIVE UnpackDomainName(_, _, _)
UnpackDomainName(msg, off, labels) ==
  IF off >= Len(msg) THEN [err |-> TRUE, name |-> labels, off |-> Len(msg)]
  ELSE IF msg[off + 1] = 0 THEN [err |-> FALSE, name |-> labels, off |-> off + 1]
  ELSE IF msg[off + 1] > MaxLabel \/ off + 1 + msg[off + 1] > Len(msg)
       THEN [err |-> TRUE, name |-> labels, off |-> Len(msg)]
  ELSE UnpackDomainName(msg, off + 1 + msg[off + 1],
                        Append(labels, SubSeq(msg, off + 2, off + 1 + msg[off + 1])))

\* unpackQuestion: a name, a type and a class; a question the message ends in
\* the middle of, at a field boundary, is taken with the missing fields 0.
UnpackQuestion(msg, off) ==
  LET n == UnpackDomainName(msg, off, <<>>)
      q(t, c) == [Name |-> n.name, Qtype |-> t, Qclass |-> c]
  IN IF n.err THEN [err |-> TRUE, q |-> q(0, 0), off |-> n.off]
     ELSE IF n.off = Len(msg) THEN [err |-> FALSE, q |-> q(0, 0), off |-> n.off]
     ELSE IF n.off + 2 > Len(msg) THEN [err |-> TRUE, q |-> q(0, 0), off |-> Len(msg)]
     ELSE IF n.off + 2 = Len(msg)
          THEN [err |-> FALSE, q |-> q(Uint16At(msg, n.off), 0), off |-> n.off + 2]
     ELSE IF n.off + 4 > Len(msg) THEN [err |-> TRUE, q |-> q(0, 0), off |-> Len(msg)]
     ELSE [err |-> FALSE,
           q |-> q(Uint16At(msg, n.off), Uint16At(msg, n.off + 2)),
           off |-> n.off + 4]

RECURSIVE UnpackQuestions(_, _, _, _)
UnpackQuestions(msg, off, count, qs) ==
  IF count = 0 \/ off = Len(msg) THEN [err |-> FALSE, qs |-> qs, off |-> off]
  ELSE LET r == UnpackQuestion(msg, off)
       IN IF r.err THEN [err |-> TRUE, qs |-> qs, off |-> r.off]
          ELSE UnpackQuestions(msg, r.off, count - 1, Append(qs, r.q))

\* dns.UnpackRR with the data of the record kept as bytes: a name, then type,
\* class, TTL and data length (10 bytes), then the data; an error when the
\* message ends inside the record.
UnpackRR(msg, off) ==
  LET n == UnpackDomainName(msg, off, <<>>)
      h == n.off
  IN IF n.err \/ h + 10 > Len(msg) \/ h + 10 + Uint16At(msg, h + 8) > Len(msg)
     THEN [err |-> TRUE, rr |-> <<>>, off |-> Len(msg)]
     ELSE [err |-> FALSE,
           rr |-> [Name |-> n.name, Rrtype |-> Uint16At(msg, h),
                   Class |-> Uint16At(msg, h + 2), Ttl |-> Uint32At(msg, h + 4),
                   Rdata |-> SubSeq(msg, h + 11, h + 10 + Uint16At(msg, h + 8))],
           off |-> h + 10 + Uint16At(msg, h + 8)]

\* unpackRRslice: up to count records; a count the message is too short for
\* is cut down when the message ends between two records.
RECURSIVE UnpackRRslice(_, _, _, _)
UnpackRRslice(msg, off, count, rrs) ==
  IF count = 0 \/ off = Len(msg) THEN [err |-> FALSE, rrs |-> rrs, off |-> off]
  ELSE LET r == UnpackRR(msg, off)
       IN IF r.err THEN [err |-> TRUE, rrs |-> <<>>, off |-> Len(msg)]
          ELSE UnpackRRslice(msg, r.off, count - 1, Append(rrs, r.rr))

WireMsg(id, bits, qs, an, ns, ex) ==
  [Id |-> id, Bits |-> bits, Question |-> qs, Answer |-> an, Ns |-> ns, Extra |-> ex]

\* dns.Msg.Unpack: the header (12 bytes), the questions and the three
\* sections of records; bytes after the last record are ignored.
Unpack(msg) ==
  IF Len(msg) < HeaderSize THEN [err |-> TRUE, m |-> WireMsg(0, 0, <<>>, <<>>, <<>>, <<>>)]
  ELSE LET qs == UnpackQuestions(msg, HeaderSize, Uint16At(msg, 4), <<>>)
           an == IF qs.err THEN [err |-> TRUE, rrs |-> <<>>, off |-> Len(msg)]
                 ELSE UnpackRRslice(msg, qs.off, Uint16At(msg, 6), <<>>)
           ns == IF an.err THEN an
                 ELSE UnpackRRslice(msg, an.off, Uint16At(msg, 8), <<>>)
           ex == IF ns.err THEN ns
                 ELSE UnpackRRslice(msg, ns.off, Uint16At(msg, 10), <<>>)
       IN [err |-> ex.err,
           m |-> WireMsg(Uint16At(msg, 0), Uint16At(msg, 2),
                         qs.qs, an.rrs, ns.rrs, ex.rrs)]

\* dns.PackDomainName without compression.
RECURSIVE PackDomainName(_)
PackDomainName(labels) ==
  IF labels = <<>> THEN <<0>>
  ELSE <<Len(Head(labels))>> \o Head(labels) \o PackDomainName(Tail(labels))

PackQuestion(q) == PackDomainName(q.Name) \o PackUint16(q.Qtype) \o PackUint16(q.Qclass)

PackRR(rr) ==
  PackDomainName(rr.Name) \o PackUint16(rr.Rrtype) \o PackUint16(rr.Class)
    \o PackUint32(rr.Ttl) \o PackUint16(Len(rr.Rdata)) \o rr.Rdata

RECURSIVE PackAll(_, _)
PackAll(xs, question) ==
  IF xs = <<>> THEN <<>>
  ELSE (IF question THEN PackQuestion(Head(xs)) ELSE PackRR(Head(xs)))
         \o PackAll(Tail(xs), question)

\* The names of a message fit the wire: no label is longer than 63 bytes.
PackableName(name) == \A i \in 1..Len(name) : Len(name[i]) \in 1..MaxLabel
Packable(m) ==
  /\ \A i \in 1..Len(m.Question) : PackableName(m.Question[i].Name)
  /\ \A i \in 1..Len(m.Answer) : PackableName(m.Answer[i].Name)
  /\ \A i \in 1..Len(m.Ns) : PackableName(m.Ns[i].Name)
  /\ \A i \in 1..Len(m.Extra) : PackableName(m.Extra[i].Name)

\* dns.Msg.Pack: the header with the length of each section, then the sections.
Pack(m) ==
  IF ~Packable(m) THEN [err |-> TRUE, b |-> <<>>]
  ELSE [err |-> FALSE,
        b |-> PackUint16(m.Id) \o PackUint16(m.Bits)
                \o PackUint16(Len(m.Question)) \o PackUint16(Len(m.Answer))
                \o PackUint16(Len(m.Ns)) \o PackUint16(Len(m.Extra))
                \o PackAll(m.Question, TRUE) \o PackAll(m.Answer, FALSE)
                \o PackAll(m.Ns, FALSE) \o PackAll(m.Extra, FALSE)]

(***************************************************************************)
(* DNS messages.                                                           *)
(***************************************************************************)
RcodeSuccess == 0
RcodeServerFailure == 2
RcodeNameError == 3
OpcodeQuery == 0
OpcodeNotify == 4
TypeA == 1
ClassINET == 1

Question(name) == [Name |-> name, Qtype |-> TypeA, Qclass |-> ClassINET]

\* A resource record: its TTL in seconds, its data and its wire size.
MkRR(ttl, data, size) == [Ttl |-> ttl, Data |-> data, Size |-> size]

NoMsg == [nil |-> TRUE]


\* A request as a client sends it; Edns is the UDPSize of its OPT record,
\* 0 when it has none.
Request(id, questions, edns) ==
  [Id |-> id, Response |-> FALSE, Authoritative |-> FALSE, Opcode |-> OpcodeQuery,
   Truncated |-> FALSE, Rcode |-> RcodeSuccess, Question |-> questions,
   Answer |-> <<>>, Edns |-> edns]

\* A reply of an upstream to request m.
Reply(m, id, answer) ==
  [Id |-> id, Response |-> TRUE, Authoritative |-> TRUE, Opcode |-> OpcodeQuery,
   Truncated |-> FALSE, Rcode |-> RcodeSuccess, Question |-> m.Question,
   Answer |-> answer, Edns |-> 0]

\* HandleFailed that answers with NOERROR.
HandleFailedNoError(m) ==
  [Id |-> m.Id, Response |-> TRUE, Authoritative |-> FALSE, Opcode |-> m.Opcode,
   Truncated |-> FALSE, Rcode |-> RcodeSuccess,
   Question |-> IF Len(m.Question) > 0 THEN <<m.Question[1]>> ELSE <<>>,
   Answer |-> <<>>, Edns |-> 0]

\* dns.Msg.SetRcode(r, RcodeServerFailure), the message dns.HandleFailed writes.
HandleFailed(m) ==
  [Id |-> m.Id, Response |-> TRUE, Authoritative |-> FALSE, Opcode |-> m.Opcode,
   Truncated |-> FALSE, Rcode |-> RcodeServerFailure,
   Question |-> IF Len(m.Question) > 0 THEN <<m.Question[1]>> ELSE <<>>,
   Answer |-> <<>>, Edns |-> 0]

(***************************************************************************)
(* Names the clients ask for.                                              *)
(***************************************************************************)
NameA == <<"a", ".">>
NameB == <<"b", ".">>
NameUpperA == <<"A", ".">>

CacheNames == {NameA, NameB}

\* Requests handed to cachingResolver.Query directly.
CacheRequests ==
  { Request(id, <<Question(NameA)>>, 0) : id \in {1, MaxID} }
  \cup { Request(1, <<Question(NameB)>>, 0),
         Request(1, <<>>, 0),
         Request(1, <<Question(NameA), Question(NameB)>>, 0) }

(***************************************************************************)
(* The backing resolver: any Resolver; its Query returns a message or an   *)
(* error.  The results enumerated cover each cacheability clause.          *)
(***************************************************************************)
SmallRR == 16

OtherID(id) == (id % MaxID) + 1

BackAnswers ==
  { <<MkRR(150, "d1", SmallRR)>>,
    <<MkRR(100, "d1", SmallRR)>>,
    <<MkRR(120, "d2", SmallRR), MkRR(9000, "d1", SmallRR)>>,
    <<MkRR(8000, "d1", SmallRR), MkRR(60, "d2", SmallRR)>> }

BaseAnswer == <<MkRR(150, "d1", SmallRR)>>

BackReplies(m) ==
  { Reply(m, m.Id, a) : a \in BackAnswers }
  \cup { Reply(m, OtherID(m.Id), BaseAnswer),
         [Reply(m, m.Id, BaseAnswer) EXCEPT !.Rcode = RcodeNameError],
         [Reply(m, m.Id, BaseAnswer) EXCEPT !.Response = FALSE],
         [Reply(m, m.Id, BaseAnswer) EXCEPT !.Opcode = OpcodeNotify],
         [Reply(m, m.Id, BaseAnswer) EXCEPT !.Answer = <<>>],
         [Reply(m, m.Id, BaseAnswer) EXCEPT !.Question = <<>>],
         [Reply(m, m.Id, BaseAnswer) EXCEPT !.Question = m.Question \o <<Question(NameA)>>],
         [Reply(m, m.Id, BaseAnswer) EXCEPT !.Truncated = TRUE],
         [Reply(m, m.Id, BaseAnswer) EXCEPT !.Question = <<Question(NameUpperA)>>] }

\* back.Query(r, tr)
BackQuery(m) ==
  { [reply |-> x, err |-> FALSE] : x \in BackReplies(m) }
  \cup { [reply |-> NoMsg, err |-> TRUE] }


(***************************************************************************)
(* State.                                                                  *)
(***************************************************************************)
VARIABLES
  answer,          \* cachingResolver.answer: map from question to RR list
  ins,             \* per entry of answer, since its insertion: the TTL the upstream
                   \* gave (up), the sweeps survived (ticks), the data stored,
                   \* the TTL its last hit returned (-1: none), which slice of
                   \* RRs is the map's value (obj; 0: the one of the upstream's
                   \* reply) and the TTLs that the readers holding that slice
                   \* were given (lent; <<>>: nobody holds it)
  maxCacheSize,    \* the package variable maxCacheSize
  serverOverrides, \* Server.serverOverrides
  unqUpstream,     \* Server.unqUpstream
  newID,           \* the newID channel
  calls,           \* the calls of Query waiting for the backing resolver after a
                   \* miss, one per busy goroutine (a bag: goroutines are alike)
  last,            \* the outcome of the request that completed last
  nreq,            \* number of requests started
  dmap,            \* a DomainMap under construction, as main builds the overrides
  sets,            \* the calls of Set made on dmap, in order
  mres,            \* the result of the last lookup or parse of a DomainMap since
                   \* dmap changed
  Upstream,        \* httpserver.Server.Upstream, as the way that server behaves
  hprev,           \* the DoH request handled before the last one, and its response
  hlast,           \* the DoH request handled last, and its response
  now,             \* the clock, in seconds
  lastTick,        \* the time of the last tick that Maintain has handled
  client,          \* httpsResolver.client: the handle, numbered by creation
  firstErr,        \* httpsResolver.firstErr (ZeroTime: the zero time.Time)
  mu,              \* httpsResolver.mu: "" when free, or the kind of its holder
  queries,         \* the calls of httpsResolver.Query under way (a bag): where
                   \* each one is, its local client, whether it holds mu, the
                   \* POSTs it has issued and the outcome of its POST
  qlast,           \* the call of httpsResolver.Query that returned last
  rotatedAt,       \* the time of the last rotation of the client (ZeroTime:
                   \* the client is the one of the constructor)
  handlers,        \* the goroutines of Server.Handler around r.Id = <-newID:
                   \* where each one is and the ID it has received
  stats            \* the counters of the cache: cacheTotal, cacheBypassed,
                   \* cacheHits, cacheMisses, cacheRecorded

\* The variables of the DomainMap operations.
mapVars == <<dmap, sets, mres>>

\* The variables of the DoH server.
httpVars == <<Upstream, hprev, hlast>>

\* The variables of the DoH client.
clientVars == <<now, lastTick, client, firstErr, mu, queries, qlast, rotatedAt>>

\* The variables of the handlers that wait for an ID.
idVars == <<handlers>>

\* The counters of the cache.
statVars == <<stats>>

vars == <<answer, ins, maxCacheSize, serverOverrides, unqUpstream, newID,
          calls, last, nreq, mapVars, httpVars, clientVars, idVars, statVars>>

\* No DomainMap operation has returned yet.
NoRes == [op |-> "none"]

NoLast == [route |-> "none", kind |-> "none"]

(***************************************************************************)
(* cachingResolver helpers.                                                *)
(***************************************************************************)
\* wantToCache without the check of the truncated bit.
wantToCacheTruncated(question, reply) ==
  /\ reply.Rcode = RcodeSuccess
  /\ reply.Response
  /\ reply.Opcode = OpcodeQuery
  /\ Len(reply.Answer) # 0
  /\ Len(reply.Question) = 1
  /\ reply.Question[1] = question

\* wantToCache returns nil
wantToCache(question, reply) ==
  /\ reply.Rcode = RcodeSuccess
  /\ reply.Response
  /\ reply.Opcode = OpcodeQuery
  /\ Len(reply.Answer) # 0
  /\ Len(reply.Question) = 1
  /\ ~reply.Truncated
  /\ reply.Question[1] = question

\* limitTTL without the cap.
limitTTLNoCap(a) == a[1].Ttl

limitTTL(a) == IF a[1].Ttl > maxTTL THEN maxTTL ELSE a[1].Ttl

getTTL(a) == a[1].Ttl

setTTLFirst(a, newTTL) ==
  [i \in 1..Len(a) |-> IF i = 1 THEN [a[i] EXCEPT !.Ttl = newTTL] ELSE a[i]]

setTTL(a, newTTL) == [i \in 1..Len(a) |-> [a[i] EXCEPT !.Ttl = newTTL]]

\* copyRRSlice that copies the first RR only.
copyRRSliceShort(a) == SubSeq(a, 1, 1)

copyRRSlice(a) == [i \in 1..Len(a) |-> a[i]]

RRData(a) == [i \in 1..Len(a) |-> a[i].Data]

\* A hit that answers as an authority.
HitReplyAuthoritative(m, a) ==
  [Id |-> m.Id, Response |-> TRUE, Authoritative |-> TRUE, Opcode |-> OpcodeQuery,
   Truncated |-> FALSE, Rcode |-> RcodeSuccess, Question |-> m.Question,
   Answer |-> a, Edns |-> 0]

\* The reply Query builds on a cache hit.
HitReply(m, a) ==
  [Id |-> m.Id, Response |-> TRUE, Authoritative |-> FALSE, Opcode |-> OpcodeQuery,
   Truncated |-> FALSE, Rcode |-> RcodeSuccess, Question |-> m.Question,
   Answer |-> a, Edns |-> 0]

\* Stores without the size test.
StoresNoSizeTest(question, reply, cache, size) ==
  /\ wantToCache(question, reply)
  /\ limitTTL(reply.Answer) >= minTTL

\* Stores with the size test off by one.
StoresOffByOne(question, reply, cache, size) ==
  /\ wantToCache(question, reply)
  /\ limitTTL(reply.Answer) >= minTTL
  /\ Cardinality(DOMAIN cache) <= size

\* A size test that lets a question the cache already holds through.
StoresOverwrites(question, reply, cache, size) ==
  /\ wantToCache(question, reply)
  /\ limitTTL(reply.Answer) >= minTTL
  /\ (Cardinality(DOMAIN cache) < size \/ question \in DOMAIN cache)

\* Whether the miss path of Query stores the reply.
Stores(question, reply, cache, size) ==
  /\ wantToCache(question, reply)
  /\ limitTTL(reply.Answer) >= minTTL
  /\ Cardinality(DOMAIN cache) < size

\* An insertion that clamps the TTLs above the chosen one and leaves the
\* lower ones.
CacheInsertClampsDown(cache, question, reply) ==
  [q \in DOMAIN cache \cup {question} |->
     IF q = question
     THEN [i \in 1..Len(reply.Answer) |->
             IF reply.Answer[i].Ttl > limitTTL(reply.Answer)
             THEN [reply.Answer[i] EXCEPT !.Ttl = limitTTL(reply.Answer)]
             ELSE reply.Answer[i]]
     ELSE cache[q]]

\* The cache after the miss path of Query for this reply.
CacheInsert(cache, question, reply) ==
  [q \in DOMAIN cache \cup {question} |->
     IF q = question THEN setTTL(reply.Answer, limitTTL(reply.Answer))
     ELSE cache[q]]

\* SweepEntry that writes the new TTL into the first RR only.
SweepEntryFirstOnly(a) ==
  [i \in 1..Len(a) |->
     IF i = 1 THEN [a[i] EXCEPT !.Ttl = getTTL(a) - maintenancePeriod] ELSE a[i]]

\* The TTLs of a slice of RRs.
TTLs(a) == [i \in 1..Len(a) |-> a[i].Ttl]

\* A reader is given the slice a, of which the readers so far were given the
\* TTLs lent: the TTLs that the first of its readers was given.
Lend(lent, a) == IF lent = <<>> THEN TTLs(a) ELSE lent

\* A sweep that writes the new TTL into the slice that the map holds.
SweptInPlace(obj) == obj

\* The slice that a sweep writes the new TTL into and stores: newans, which
\* copyRRSlice has just made.
SweptObject(obj) == obj + 1

\* One entry after a maintenance sweep.
SweepEntry(a) == setTTL(copyRRSlice(a), getTTL(a) - maintenancePeriod)

\* SweepKeeps that keeps an entry whose new TTL is zero.
SweepKeepsZero(cache) == {q \in DOMAIN cache : getTTL(cache[q]) - maintenancePeriod >= 0}

\* Questions that survive a maintenance sweep.
SweepKeeps(cache) == {q \in DOMAIN cache : getTTL(cache[q]) - maintenancePeriod > 0}


(***************************************************************************)
(* Server.writeReply and the library's Msg.Truncate.                       *)
(***************************************************************************)
MinMsgSize == 512

\* Wire length of a name: a length octet per label and the root octet.
NameLen(name) == IF name = <<Dot>> THEN 1 ELSE Len(name) + 1

\* Wire length of a question: the name, then type and class.
QuestionLen(q) == NameLen(q.Name) + 4

RECURSIVE SumQuestions(_, _)
SumQuestions(qs, n) == IF n = 0 THEN 0 ELSE QuestionLen(qs[n]) + SumQuestions(qs, n - 1)

RECURSIVE SumRRs(_, _)
SumRRs(a, n) == IF n = 0 THEN 0 ELSE a[n].Size + SumRRs(a, n - 1)

\* Length of the message with its first n answers.
MsgLen(m, n) == HeaderSize + SumQuestions(m.Question, Len(m.Question)) + SumRRs(m.Answer, n)

\* Octets name compression saves in one RR: the RRs are owned by the name
\* of the question, which a two-octet pointer replaces.
Saved(m) ==
  IF Len(m.Question) = 0 THEN 0
  ELSE IF NameLen(m.Question[1].Name) > 2 THEN NameLen(m.Question[1].Name) - 2 ELSE 0

\* Length of the message with its first n answers, names compressed.
CompLen(m, n) == MsgLen(m, n) - n * Saved(m)

\* Truncate without the floor of 512 octets.
TruncateNoMin(m, size) ==
  LET fit == {n \in 0..Len(m.Answer) : CompLen(m, n) <= size}
      num == IF fit = {} THEN 0 ELSE CHOOSE n \in fit : \A k \in fit : k <= n
  IN IF MsgLen(m, Len(m.Answer)) <= size THEN m
     ELSE [m EXCEPT !.Truncated = m.Truncated \/ Len(m.Answer) > num,
                    !.Answer = SubSeq(m.Answer, 1, num)]

\* dns.Msg.Truncate(size): a message that fits without compression is left
\* alone; otherwise compression is turned on and the RRs that fit are kept.
Truncate(m, size) ==
  LET sz == IF size < MinMsgSize THEN MinMsgSize ELSE size
      fit == {n \in 0..Len(m.Answer) : CompLen(m, n) <= sz}
      num == IF fit = {} THEN 0 ELSE CHOOSE n \in fit : \A k \in fit : k <= n
  IN IF MsgLen(m, Len(m.Answer)) <= sz THEN m
     ELSE [m EXCEPT !.Truncated = m.Truncated \/ Len(m.Answer) > num,
                    !.Answer = SubSeq(m.Answer, 1, num)]

\* Server.writeReply: the message handed to w.WriteMsg
writeReply(net, r, reply) ==
  IF net = "udp"
  THEN Truncate(reply, IF r.Edns # 0 THEN r.Edns ELSE 512)
  ELSE reply

(***************************************************************************)
(* Classical DNS upstreams reached with dns.Exchange.                      *)
(***************************************************************************)
BigRR == 90
BigCount == 10

\* Sizes a client may give as its limit: the default, and its OPT's.
Limits(m) == {MinMsgSize} \cup (IF m.Edns # 0 THEN {m.Edns} ELSE {})

\* Two RRs that make the reply to m exactly len octets long uncompressed.
FitAnswer(m, addr, len) ==
  <<MkRR(300, addr, SmallRR),
    MkRR(300, addr, len - MsgLen(m, 0) - SmallRR)>>

\* Answers of the server at addr to m: a small one, a big one, and for each
\* limit two-RR answers that end on the limit and one octet after it,
\* measured without and with compression.
UpstreamAnswers(m, addr) ==
  { <<MkRR(300, addr, SmallRR)>>,
    [i \in 1..BigCount |-> MkRR(300, addr, BigRR)] }
  \cup { FitAnswer(m, addr, l + d + c * 2 * Saved(m)) :
            l \in Limits(m), d \in {0, 1}, c \in {0, 1} }

\* dns.Exchange(m, addr): the server answers with some ID or not at all; the
\* library returns only a reply whose ID is the one of m.
Exchange(m, addr) ==
  { [reply |-> NoMsg, err |-> TRUE] }
  \cup { IF sid = m.Id THEN [reply |-> Reply(m, sid, a), err |-> FALSE]
                     ELSE [reply |-> NoMsg, err |-> TRUE]
         : sid \in IDs, a \in UpstreamAnswers(m, addr) }

(***************************************************************************)
(* Requests received by the DNS front-end.                                 *)
(***************************************************************************)
NameOv3 == <<"o","v","3",".">>
NameYXOv3 == <<"y",".","x",".","O","V","3",".">>
NameAOv4 == <<"a",".","o","v","4",".">>
NameUpperAOv4 == <<"A",".","o","v","4",".">>
NameBOv4 == <<"b",".","o","v","4",".">>
NameUnq == <<"u","n","q",".">>
NameRoot == <<Dot>>

\* Requests the front-end receives, each with the network it arrives on.
ServerInputs ==
  { [m |-> Request(1, <<Question(NameYXOv3)>>, 2048), net |-> "udp"],
    [m |-> Request(1, <<Question(NameUpperAOv4)>>, 0), net |-> "tcp"],
    [m |-> Request(1, <<Question(NameBOv4)>>, 0), net |-> "udp"],
    [m |-> Request(2, <<Question(NameBOv4)>>, 0), net |-> "tcp"],
    [m |-> Request(1, <<Question(NameUnq)>>, 0), net |-> "udp"],
    [m |-> Request(1, <<Question(NameOv3)>>, 0), net |-> "udp"],
    [m |-> Request(2, <<Question(NameRoot)>>, 256), net |-> "udp"],
    [m |-> Request(1, <<>>, 0), net |-> "udp"],
    [m |-> Request(2, <<Question(NameUnq), Question(NameBOv4)>>, 0), net |-> "tcp"] }

\* The override map of TestServe.
OverridesTest == Set(Set(EmptyMap, NameOv3, "X3"), NameAOv4, "X4")

\* An override map with an entry for the root.
OverridesRoot == Set(Set(EmptyMap, NameRoot, "X0"), NameAOv4, "X4")

OverrideMaps == {OverridesTest, OverridesRoot}

\* Configurations the server is started with: the overrides and the
\* unqualified upstream ("" when none is configured).
ServerConfigs ==
  { [overrides |-> OverridesTest, unq |-> "U"],
    [overrides |-> OverridesTest, unq |-> ""],
    [overrides |-> OverridesRoot, unq |-> "U"] }

\* Names of the single-question requests.
ServerNames ==
  {i.m.Question[1].Name : i \in {j \in ServerInputs : Len(j.m.Question) = 1}}

\* s.serverOverrides.GetMostSpecific(name), tabulated for the maps and the
\* names above.
MostSpecific == [om \in OverrideMaps |-> [n \in ServerNames |-> GetMostSpecific(om, n)]]

\* dns.CountLabel(name), tabulated for the names above.
Labels == [n \in ServerNames |-> CountLabel(n)]

\* Results of the backing resolver behind the front-end.
HandlerBackQuery(m) ==
  { [reply |-> Reply(m, m.Id, [i \in 1..BigCount |-> MkRR(120, "d1", BigRR)]),
     err |-> FALSE],
    [reply |-> Reply(m, OtherID(m.Id), <<MkRR(60, "d1", SmallRR)>>), err |-> FALSE],
    [reply |-> [Reply(m, m.Id, <<>>) EXCEPT !.Rcode = RcodeNameError], err |-> FALSE],
    [reply |-> NoMsg, err |-> TRUE] }

(***************************************************************************)
(* Completion of a request: what cachingResolver.Query returns and, when   *)
(* the front-end called it, what Server.Handler writes to the client.      *)
(***************************************************************************)
\* HandlerWrite that leaves the upstream ID in what it writes.
HandlerWriteNoRestore(c, reply, err) ==
  IF err THEN HandleFailed(c.r) ELSE writeReply(c.net, c.r, reply)

\* The tail of Server.Handler after s.resolver.Query returned.
HandlerWrite(c, reply, err) ==
  IF err THEN HandleFailed([c.r EXCEPT !.Id = c.oldid])
  ELSE writeReply(c.net, c.r, [reply EXCEPT !.Id = c.oldid])

\* The record of ins for a request that no cache entry served.
NoEntry == [up |-> 0, ticks |-> 0, data |-> <<>>, lastHit |-> -1, obj |-> 0,
            lent |-> <<>>]

\* The entry a miss finds for q when it comes to its insertion, by the TTL
\* the upstream gave it.
Held(q) == IF q \in DOMAIN ins THEN [NoEntry EXCEPT !.up = ins[q].up] ELSE NoEntry

\* Outcome of a request that went through cachingResolver.Query.
\* e describes the cache entry a hit served: the TTL the upstream gave it
\* (up), the sweeps it has lived through (age) and the TTL its previous hit
\* returned (prev).
Outcome(c, kind, reply, err, back, stored, e) ==
  [route |-> c.entry, kind |-> kind, client |-> c.orig,
   sent |-> c.r, net |-> c.net, reply |-> reply, err |-> err, back |-> back,
   backCalls |-> IF kind = "hit" THEN 0 ELSE 1, stored |-> stored,
   up |-> e.up, age |-> e.ticks, prev |-> e.lastHit, upstream |-> "",
   written |-> IF c.entry = "resolver" THEN HandlerWrite(c, reply, err) ELSE NoMsg]

\* Outcome of a request the front-end answers without the resolver.
Direct(m, net, route, upstream, written) ==
  [route |-> route, kind |-> "none", client |-> m, sent |-> m,
   net |-> net, reply |-> NoMsg, err |-> FALSE, back |-> NoMsg, backCalls |-> 0,
   stored |-> FALSE, up |-> 0, age |-> 0, prev |-> -1, upstream |-> upstream,
   written |-> written]

\* A call of cachingResolver.Query by a test or another caller.
Call(m) ==
  [entry |-> "query", r |-> m, oldid |-> m.Id, net |-> "none", orig |-> m]

\* A Handler that passes the request on under the client's ID.
HandlerCallKeepID(i, id) ==
  [entry |-> "resolver", r |-> i.m,
   oldid |-> i.m.Id, net |-> i.net, orig |-> i.m]

\* The frame of Server.Handler when it calls s.resolver.Query: the request
\* carries the ID taken from newID, oldid keeps the client's.
HandlerCall(i, id) ==
  [entry |-> "resolver", r |-> [i.m EXCEPT !.Id = id],
   oldid |-> i.m.Id, net |-> i.net, orig |-> i.m]

BackResults(c) == IF c.entry = "query" THEN BackQuery(c.r) ELSE HandlerBackQuery(c.r)

\* A goroutine is free to take a request.
Free == BagCardinality(calls) < NumProcs

(***************************************************************************)
(* cachingResolver.Query, as steps on a call frame c.                      *)
(***************************************************************************)
\* A Query that looks the first of several questions up.
BypassLooksUp(c) ==
  /\ Len(c.r.Question) # 1
  /\ IF Len(c.r.Question) > 1 /\ c.r.Question[1] \in DOMAIN answer
     THEN last' = Outcome(c, "bypass", HitReply(c.r, answer[c.r.Question[1]]),
                          FALSE, NoMsg, FALSE, NoEntry)
     ELSE \E res \in BackResults(c) :
            last' = Outcome(c, "bypass", res.reply, res.err, res.reply, FALSE, NoEntry)
  /\ stats' = Count(stats, "bypass")
  /\ UNCHANGED <<answer, ins, calls>>

\* Multi-question bypass: the backing resolver's result verbatim.
Bypass(c) ==
  /\ Len(c.r.Question) # 1
  /\ \E res \in BackResults(c) :
       last' = Outcome(c, "bypass", res.reply, res.err, res.reply, FALSE, NoEntry)
  /\ stats' = Count(stats, "bypass")
  /\ UNCHANGED <<answer, ins, calls>>

\* The lookup under the read lock hits.
Hit(c) ==
  /\ Len(c.r.Question) = 1
  /\ c.r.Question[1] \in DOMAIN answer
  /\ LET q == c.r.Question[1] IN
       /\ last' = Outcome(c, "hit", HitReply(c.r, answer[q]), FALSE, NoMsg, FALSE, ins[q])
       /\ ins' = [ins EXCEPT ![q].lastHit = getTTL(answer[q]),
                             ![q].lent = Lend(@, answer[q])]
  /\ stats' = Count(stats, "hit")
  /\ UNCHANGED <<answer, calls>>

\* The lookup under the read lock misses; the backing resolver is called next.
LookupMiss(c) ==
  /\ Len(c.r.Question) = 1
  /\ c.r.Question[1] \notin DOMAIN answer
  /\ calls' = calls (+) SetToBag({c})
  /\ stats' = Count(stats, "miss")
  /\ UNCHANGED <<answer, ins, last>>

\* A miss path that, when the backing resolver fails, forgets what the
\* cache holds for the question.
MissFailedForgets(c, res) ==
  /\ last' = Outcome(c, "miss", res.reply, TRUE, res.reply, FALSE, NoEntry)
  /\ answer' = [q \in DOMAIN answer \ {c.r.Question[1]} |-> answer[q]]
  /\ ins' = [q \in DOMAIN answer \ {c.r.Question[1]} |-> ins[q]]
  /\ UNCHANGED stats

\* The miss path when the backing resolver fails: Query returns what the
\* backing resolver returned.
MissFailed(c, res) ==
  /\ last' = Outcome(c, "miss", res.reply, TRUE, res.reply, FALSE, NoEntry)
  /\ UNCHANGED <<answer, ins, stats>>

(***************************************************************************)
(* Actions of the cache.                                                   *)
(***************************************************************************)
QueryBypass ==
  /\ Free
  /\ nreq < MaxCalls
  /\ \E m \in CacheRequests : Bypass(Call(m))
  /\ nreq' = nreq + 1
  /\ UNCHANGED <<maxCacheSize, serverOverrides, unqUpstream, newID>>
  /\ UNCHANGED <<mapVars, httpVars, clientVars, idVars>>

QueryHit ==
  /\ Free
  /\ nreq < MaxCalls
  /\ \E m \in CacheRequests : Hit(Call(m))
  /\ nreq' = nreq + 1
  /\ UNCHANGED <<maxCacheSize, serverOverrides, unqUpstream, newID>>
  /\ UNCHANGED <<mapVars, httpVars, clientVars, idVars>>

QueryLookupMiss ==
  /\ Free
  /\ nreq < MaxCalls
  /\ \E m \in CacheRequests : LookupMiss(Call(m))
  /\ nreq' = nreq + 1
  /\ UNCHANGED <<maxCacheSize, serverOverrides, unqUpstream, newID>>
  /\ UNCHANGED <<mapVars, httpVars, clientVars, idVars>>

\* Query after a miss: the backing resolver answers, the reply is checked
\* and stored under the write lock, and Query returns.
QueryMiss ==
  /\ \E c \in BagToSet(calls) :
       /\ calls' = calls (-) SetToBag({c})
       /\ LET q == c.r.Question[1] IN
          \E res \in BackResults(c) :
            IF res.err
            THEN MissFailed(c, res)
            ELSE IF Stores(q, res.reply, answer, maxCacheSize)
            THEN LET ttl == limitTTL(res.reply.Answer)
                     capped == [res.reply EXCEPT !.Answer = setTTL(res.reply.Answer, ttl)]
                 IN /\ answer' = CacheInsert(answer, q, res.reply)
                    /\ ins' = [k \in DOMAIN answer \cup {q} |->
                                 IF k = q
                                 THEN [up |-> res.reply.Answer[1].Ttl, ticks |-> 0,
                                       data |-> RRData(res.reply.Answer),
                                       lastHit |-> -1, obj |-> 0,
                                       lent |-> Lend(<<>>, CacheInsert(answer, q, res.reply)[q])]
                                 ELSE ins[k]]
                    /\ last' = Outcome(c, "miss", capped, FALSE, res.reply, TRUE, Held(q))
                    /\ stats' = Add(stats, "cacheRecorded")
            ELSE /\ last' = Outcome(c, "miss", res.reply, FALSE, res.reply, FALSE, Held(q))
                 /\ UNCHANGED <<answer, ins, stats>>
  /\ UNCHANGED <<maxCacheSize, serverOverrides, unqUpstream, newID, nreq>>
  /\ UNCHANGED <<mapVars, httpVars, clientVars, idVars>>

\* One iteration of the loop of Maintain: the sweep under the write lock.
MaintainTick ==
  /\ \A q \in DOMAIN answer : ins[q].ticks < MaxTicks
  /\ answer' = [q \in SweepKeeps(answer) |-> SweepEntry(answer[q])]
  /\ ins' = [q \in SweepKeeps(answer) |->
               [ins[q] EXCEPT !.ticks = @ + 1,
                              !.obj = SweptObject(@),
                              !.lent = IF SweptObject(ins[q].obj) = ins[q].obj
                                       THEN @ ELSE <<>>]]
  /\ UNCHANGED <<maxCacheSize, serverOverrides, unqUpstream, newID, calls, last, nreq>>
  /\ UNCHANGED <<mapVars, httpVars, clientVars, idVars, statVars>>

\* FlushCache
FlushCache ==
  /\ answer' = [q \in {} |-> <<>>]
  /\ ins' = [q \in {} |-> <<>>]
  /\ UNCHANGED <<maxCacheSize, serverOverrides, unqUpstream, newID, calls, last, nreq>>
  /\ UNCHANGED <<mapVars, httpVars, clientVars, idVars, statVars>>

(***************************************************************************)
(* Actions of the DNS front-end.                                           *)
(***************************************************************************)
\* The producer goroutine of init(): one random ID into the channel.
ProduceID ==
  /\ Len(newID) < NewIDCap
  /\ \E id \in IDs : newID' = Append(newID, id)
  /\ UNCHANGED <<answer, ins, maxCacheSize, serverOverrides, unqUpstream, calls, last, nreq>>
  /\ UNCHANGED <<mapVars, httpVars, clientVars, idVars, statVars>>

\* Handler: a request with a number of questions other than one.
HandlerBadQuestions ==
  /\ Free
  /\ nreq < MaxRequests
  /\ \E i \in ServerInputs :
       /\ Len(i.m.Question) # 1
       /\ last' = Direct(i.m, i.net, "questions", "", HandleFailed(i.m))
  /\ nreq' = nreq + 1
  /\ UNCHANGED <<answer, ins, maxCacheSize, serverOverrides, unqUpstream, newID, calls>>
  /\ UNCHANGED <<mapVars, httpVars, clientVars, idVars, statVars>>

\* The result of forwarding the request with dns.Exchange and answering.
\* Forwarded that asks the backing resolver when the exchange fails.
ForwardedFallsThrough(i, route, addr, x) ==
  [Direct(i.m, i.net, route, addr,
          IF x.err THEN writeReply(i.net, i.m, Reply(i.m, i.m.Id, <<MkRR(120, "d1", SmallRR)>>))
          ELSE writeReply(i.net, i.m, x.reply))
   EXCEPT !.err = x.err, !.reply = x.reply, !.backCalls = IF x.err THEN 1 ELSE 0]

Forwarded(i, route, addr, x) ==
  [Direct(i.m, i.net, route, addr,
          IF x.err THEN HandleFailed(i.m) ELSE writeReply(i.net, i.m, x.reply))
   EXCEPT !.err = x.err, !.reply = x.reply]

\* Handler: the name has a server override.
HandlerOverride ==
  /\ Free
  /\ nreq < MaxRequests
  /\ \E i \in ServerInputs :
       /\ Len(i.m.Question) = 1
       /\ LET ov == MostSpecific[serverOverrides][i.m.Question[1].Name] IN
            /\ ov.ok
            /\ \E x \in Exchange(i.m, ov.v) :
                 last' = Forwarded(i, "override", ov.v, x)
  /\ nreq' = nreq + 1
  /\ UNCHANGED <<answer, ins, maxCacheSize, serverOverrides, unqUpstream, newID, calls>>
  /\ UNCHANGED <<mapVars, httpVars, clientVars, idVars, statVars>>

\* useUnqUpstream that lets two-label names through.
useUnqUpstreamTwo(m) == unqUpstream # "" /\ Labels[m.Question[1].Name] <= 2

\* useUnqUpstream
useUnqUpstream(m) == unqUpstream # "" /\ Labels[m.Question[1].Name] <= 1

\* Handler: no override, the name is unqualified.
HandlerUnqualified ==
  /\ Free
  /\ nreq < MaxRequests
  /\ \E i \in ServerInputs :
       /\ Len(i.m.Question) = 1
       /\ ~MostSpecific[serverOverrides][i.m.Question[1].Name].ok
       /\ useUnqUpstream(i.m)
       /\ \E x \in Exchange(i.m, unqUpstream) :
            last' = Forwarded(i, "unqualified", unqUpstream, x)
  /\ nreq' = nreq + 1
  /\ UNCHANGED <<answer, ins, maxCacheSize, serverOverrides, unqUpstream, newID, calls>>
  /\ UNCHANGED <<mapVars, httpVars, clientVars, idVars, statVars>>

\* Handler: the request is for the backing resolver: one question, no
\* override, not the unqualified shortcut.
ForResolver(i) ==
  /\ Len(i.m.Question) = 1
  /\ ~MostSpecific[serverOverrides][i.m.Question[1].Name].ok
  /\ ~useUnqUpstream(i.m)

\* Handler: r.Id = <-newID, then s.resolver.Query, whose lookup hits; the
\* reply is written with the client's ID.  The handler blocks while the
\* channel is empty.
HandlerQueryHit ==
  /\ Free
  /\ nreq < MaxRequests
  /\ newID # <<>>
  /\ \E i \in ServerInputs : ForResolver(i) /\ Hit(HandlerCall(i, Head(newID)))
  /\ newID' = Tail(newID)
  /\ nreq' = nreq + 1
  /\ UNCHANGED <<maxCacheSize, serverOverrides, unqUpstream>>
  /\ UNCHANGED <<mapVars, httpVars, clientVars, idVars>>

\* Handler: r.Id = <-newID, then s.resolver.Query, whose lookup misses.
HandlerQueryMiss ==
  /\ Free
  /\ nreq < MaxRequests
  /\ newID # <<>>
  /\ \E i \in ServerInputs : ForResolver(i) /\ LookupMiss(HandlerCall(i, Head(newID)))
  /\ newID' = Tail(newID)
  /\ nreq' = nreq + 1
  /\ UNCHANGED <<maxCacheSize, serverOverrides, unqUpstream>>
  /\ UNCHANGED <<mapVars, httpVars, clientVars, idVars>>

(***************************************************************************)
(* The DoH server (httpserver.Server).                                     *)
(***************************************************************************)
StatusOK == 200
StatusBadRequest == 400
StatusRequestTimeout == 408
StatusUnsupportedMediaType == 415
StatusFailedDependency == 424

\* The number of bytes of a POST body the server reads.
BodyLimit == 4092

DNSMessageType == "application/dns-message"

\* mime.ParseMediaType on the Content-Type headers of the model: the media
\* type in lower case without its parameters; an error for a header that is
\* empty or has a parameter without a value.
ParseMediaType(v) ==
  CASE v = "application/dns-message" -> [err |-> FALSE, mt |-> DNSMessageType]
    [] v = "Application/DNS-Message; charset=utf-8" -> [err |-> FALSE, mt |-> DNSMessageType]
    [] v = "text/plain" -> [err |-> FALSE, mt |-> "text/plain"]
    [] v = "cat/cat" -> [err |-> FALSE, mt |-> "cat/cat"]
    [] v = "application/dns-message; q" -> [err |-> TRUE, mt |-> ""]
    [] OTHER -> [err |-> TRUE, mt |-> ""]

\* ioutil.ReadAll(io.LimitReader(req.Body, limit)): the first limit bytes of
\* the body, or all of it when it is shorter; the error of the body's reader.
ReadAllLimit(req, limit) ==
  IF req.BodyErr THEN [err |-> TRUE, b |-> <<>>]
  ELSE [err |-> FALSE,
        b |-> SubSeq(req.Body, 1, IF Len(req.Body) < limit THEN Len(req.Body) ELSE limit)]

\* The ways an upstream DNS server can behave.
UpstreamBehaviours == {"answers", "fails", "silent", "unpackable"}

\* The record an answering upstream gives for a question: an A record, 1.2.3.4.
AnswerFor(q) ==
  [Name |-> q.Name, Rrtype |-> 1, Class |-> 1, Ttl |-> 300, Rdata |-> <<1, 2, 3, 4>>]

\* A name no wire message can carry: its label has 64 bytes.
LongName == <<[i \in 1..(MaxLabel + 1) |-> 97]>>

\* dns.Exchange(r, s.Upstream): the reply to r, an error, or neither.
ExchangeUpstream(r, up) ==
  CASE up = "fails" -> [err |-> TRUE, nil |-> TRUE, m |-> r]
    [] up = "silent" -> [err |-> FALSE, nil |-> TRUE, m |-> r]
    [] up = "unpackable" ->
         [err |-> FALSE, nil |-> FALSE,
          m |-> [r EXCEPT !.Bits = 33152,
                          !.Answer = <<AnswerFor([Name |-> LongName])>>]]
    [] OTHER ->
         [err |-> FALSE, nil |-> FALSE,
          m |-> [r EXCEPT !.Bits = 33152,
                          !.Answer = [i \in 1..Len(r.Question) |-> AnswerFor(r.Question[i])],
                          !.Ns = <<>>, !.Extra = <<>>]]

\* What the server did with a request: the kind of DoH request it took it
\* for, the status and the body of the response (the DNS reply; empty when the
\* body is an error text), and the messages it sent to the upstream.
\* An error response is written by http.Error, as plain text.
TextPlain == "text/plain; charset=utf-8"
Response(doh, status, reply, asked) ==
  [doh |-> doh, status |-> status, reply |-> reply, asked |-> asked,
   ct |-> IF status = StatusOK THEN "" ELSE TextPlain]

\* The end of resolveDoH: the Content-type header is set, then the status and
\* the packed reply are written.
WriteReply(doh, packed, asked) ==
  [Response(doh, StatusOK, packed, asked) EXCEPT !.ct = DNSMessageType]

\* A resolveDoH that takes a missing upstream reply for a failed exchange.
resolveUnpackedNilFails(doh, r, up) ==
  LET fromUp == ExchangeUpstream(r.m, up)
      packed == Pack(fromUp.m)
  IN IF r.err THEN Response(doh, StatusBadRequest, <<>>, <<>>)
     ELSE IF fromUp.err \/ fromUp.nil
     THEN Response(doh, StatusFailedDependency, <<>>, <<r.m>>)
     ELSE IF packed.err THEN Response(doh, StatusFailedDependency, <<>>, <<r.m>>)
     ELSE WriteReply(doh, packed.b, <<r.m>>)

\* resolveDoH once the query is unpacked: the exchange with the upstream and
\* the response written.
resolveUnpacked(doh, r, up) ==
  LET fromUp == ExchangeUpstream(r.m, up)
      packed == Pack(fromUp.m)
  IN IF r.err THEN Response(doh, StatusBadRequest, <<>>, <<>>)
     ELSE IF fromUp.err THEN Response(doh, StatusFailedDependency, <<>>, <<r.m>>)
     ELSE IF fromUp.nil THEN Response(doh, StatusRequestTimeout, <<>>, <<r.m>>)
     ELSE IF packed.err THEN Response(doh, StatusFailedDependency, <<>>, <<r.m>>)
     ELSE WriteReply(doh, packed.b, <<r.m>>)

\* Server.resolveDoH (r is the query unpacked, computed once)
resolveDoH(doh, dnsQuery, up) ==
  CHOOSE w \in { resolveUnpacked(doh, r, up) : r \in {Unpack(dnsQuery)} } : TRUE

\* A Resolve that answers 415 whenever a POST is not of the DoH media type.
ResolveNoParseError(req, up) ==
  IF req.Method = "GET" /\ req.Dns # <<>>
  THEN CHOOSE w \in { IF d.err THEN Response("GET", StatusBadRequest, <<>>, <<>>)
                      ELSE resolveDoH("GET", d.b, up)
                      : d \in {DecodeString(req.Dns)} } : TRUE
  ELSE IF req.Method = "POST" /\ ParseMediaType(req.ContentType).mt = DNSMessageType
  THEN CHOOSE w \in { IF d.err THEN Response("POST", StatusBadRequest, <<>>, <<>>)
                      ELSE resolveDoH("POST", d.b, up)
                      : d \in {ReadAllLimit(req, BodyLimit)} } : TRUE
  ELSE Response("none", StatusUnsupportedMediaType, <<>>, <<>>)

\* Server.Resolve
Resolve(req, up) ==
  IF req.Method = "GET" /\ req.Dns # <<>>
  THEN CHOOSE w \in { IF d.err THEN Response("GET", StatusBadRequest, <<>>, <<>>)
                      ELSE resolveDoH("GET", d.b, up)
                      : d \in {DecodeString(req.Dns)} } : TRUE
  ELSE IF req.Method = "POST" /\ ParseMediaType(req.ContentType).err
  THEN Response("none", StatusBadRequest, <<>>, <<>>)
  ELSE IF req.Method = "POST" /\ ParseMediaType(req.ContentType).mt = DNSMessageType
  THEN CHOOSE w \in { IF d.err THEN Response("POST", StatusBadRequest, <<>>, <<>>)
                      ELSE resolveDoH("POST", d.b, up)
                      : d \in {ReadAllLimit(req, BodyLimit)} } : TRUE
  ELSE Response("none", StatusUnsupportedMediaType, <<>>, <<>>)

\* No request handled yet.
NoHTTP == [req |-> 0]

(***************************************************************************)
(* The DoH client resolver (internal/httpresolver).                        *)
(***************************************************************************)
\* The zero time.Time, the time at which the clock starts, the period of
\* Maintain's ticker and the age of firstErr beyond which the client is
\* rotated, in seconds; the most that Query reads of a response body.
ZeroTime == 0
StartTime == 1
TickPeriod == 2
RotateAfter == 10
BodyMax == 65536

\* httpsResolver.newClient: a client that did not exist before (the clients
\* are numbered in the order of their creation; c is the latest one).
newClient(c) == c + 1

\* A setClientError that forgets the first failure for the latest one.
setClientErrorLatest(fe, err, t) ==
  IF ~err THEN ZeroTime ELSE t

\* httpsResolver.setClientError, at time t: the new value of firstErr.
setClientError(fe, err, t) ==
  IF ~err THEN ZeroTime
  ELSE IF fe = ZeroTime THEN t
  ELSE fe

\* A maybeRotateClient that rotates as soon as firstErr is 10 seconds old.
maybeRotateClientAtLeast(c, fe, t) ==
  IF fe = ZeroTime THEN [client |-> c, firstErr |-> fe]
  ELSE IF t - fe >= RotateAfter THEN [client |-> newClient(c), firstErr |-> ZeroTime]
  ELSE [client |-> c, firstErr |-> fe]

\* A maybeRotateClient that never rotates.
maybeRotateClientNever(c, fe, t) == [client |-> c, firstErr |-> fe]

\* A maybeRotateClient that rotates and leaves firstErr as it is.
maybeRotateClientKeepsErr(c, fe, t) ==
  IF fe = ZeroTime THEN [client |-> c, firstErr |-> fe]
  ELSE IF t - fe > RotateAfter THEN [client |-> newClient(c), firstErr |-> fe]
  ELSE [client |-> c, firstErr |-> fe]

\* httpsResolver.maybeRotateClient, at time t: the new client and firstErr.
maybeRotateClient(c, fe, t) ==
  IF fe = ZeroTime THEN [client |-> c, firstErr |-> fe]
  ELSE IF t - fe > RotateAfter THEN [client |-> newClient(c), firstErr |-> ZeroTime]
  ELSE [client |-> c, firstErr |-> fe]

\* A query for the A records of "a.", recursion desired.
DoHQuery ==
  WireMsg(4660, 256, <<[Name |-> <<<<97>>>>, Qtype |-> 1, Qclass |-> 1]>>,
          <<>>, <<>>, <<>>)

\* What client.Post returns: a transport error, or a response with its status,
\* its Content-Type header and its body (BodyErr: reading the body fails).
PostResult(err, status, ct, body, bodyErr) ==
  [err |-> err, StatusCode |-> status, ContentType |-> ct, Body |-> body,
   BodyErr |-> bodyErr]

\* The reply of a DoH server to DoHQuery, packed.
DoHReply == Pack(ExchangeUpstream(DoHQuery, "answers").m).b

\* The outcomes of a POST: the transport fails; the server answers 418; it
\* answers 200 without a Content-Type, with another type, with a body that
\* breaks off, with a body that is no DNS message, and with a DNS reply (the
\* media type as such, and with a parameter and in another case); it answers
\* 500 with a DNS reply.
StatusTeapot == 418
StatusInternalServerError == 500
PostOutcomes ==
  << PostResult(TRUE, 0, "", <<>>, FALSE),
     PostResult(FALSE, StatusTeapot, "text/plain", <<>>, FALSE),
     PostResult(FALSE, StatusOK, "", <<>>, FALSE),
     PostResult(FALSE, StatusOK, "cat/cat", <<>>, FALSE),
     PostResult(FALSE, StatusOK, DNSMessageType, <<>>, TRUE),
     PostResult(FALSE, StatusOK, DNSMessageType, <<1, 2, 3>>, FALSE),
     PostResult(FALSE, StatusOK, DNSMessageType, DoHReply, FALSE),
     PostResult(FALSE, StatusOK, "Application/DNS-Message; charset=utf-8",
                DoHReply, FALSE),
     PostResult(FALSE, StatusInternalServerError, DNSMessageType, DoHReply, FALSE) >>

\* What Query returns: a message and no error, or no message and an error.
QueryOK(m) == [nil |-> FALSE, err |-> "", m |-> m]
QueryError(text) == [nil |-> TRUE, err |-> text, m |-> <<>>]

\* httpsResolver.Query from the return of client.Post on (hr is what it
\* returned; respDNS is the body read, unpacked).
QueryUnpacked(hr, respDNS) ==
  IF respDNS.err THEN QueryError("error unpacking response")
  ELSE QueryOK(respDNS.m)

\* A Query that does not look at the status of the response.
QueryAfterPostAnyStatus(hr) ==
  IF hr.err THEN QueryError("POST failed")
  ELSE IF ParseMediaType(hr.ContentType).err
  THEN QueryError("failed to parse content type")
  ELSE IF ParseMediaType(hr.ContentType).mt # DNSMessageType
  THEN QueryError("unknown response content type")
  ELSE IF ReadAllLimit(hr, BodyMax).err THEN QueryError("error reading from body")
  ELSE CHOOSE w \in { QueryUnpacked(hr, u)
                      : u \in {Unpack(ReadAllLimit(hr, BodyMax).b)} } : TRUE

QueryAfterPost(hr) ==
  IF hr.err THEN QueryError("POST failed")
  ELSE IF hr.StatusCode # StatusOK THEN QueryError("Response status")
  ELSE IF ParseMediaType(hr.ContentType).err
  THEN QueryError("failed to parse content type")
  ELSE IF ParseMediaType(hr.ContentType).mt # DNSMessageType
  THEN QueryError("unknown response content type")
  ELSE IF ReadAllLimit(hr, BodyMax).err THEN QueryError("error reading from body")
  ELSE CHOOSE w \in { QueryUnpacked(hr, u)
                      : u \in {Unpack(ReadAllLimit(hr, BodyMax).b)} } : TRUE

\* What Query returns for each outcome of its POST.
QueryResults == [o \in 1..Len(PostOutcomes) |-> QueryAfterPost(PostOutcomes[o])]

\* The requests given to Query: DoHQuery, and one that cannot be packed.
ClientRequests ==
  << DoHQuery,
     WireMsg(4660, 256, <<[Name |-> LongName, Qtype |-> 1, Qclass |-> 1]>>,
             <<>>, <<>>, <<>>) >>
ClientPacks == [r \in 1..Len(ClientRequests) |-> ~Pack(ClientRequests[r]).err]

\* A Query that gives setClientError the error that it is going to return.
QueryErr(o) == QueryResults[o].nil

\* The err that Query gives to setClientError after outcome o of its POST:
\* the error of client.Post.
PostErr(o) == PostOutcomes[o].err

\* A call of Query: the request it was given, where it is ("lock": about to
\* lock mu; "read": reading r.client; "post": in client.Post; "set": in
\* setClientError), its local variable client, whether it holds mu, the
\* POSTs it has issued, and the outcome of its POST.
NewQuery(r) ==
  [req |-> r, pc |-> "lock", client |-> 0, holds |-> FALSE, posts |-> 0, out |-> 0]

\* r.mu.Lock() in Query
Locked(q) == [q EXCEPT !.pc = "read", !.holds = TRUE]

\* A Query that keeps mu locked while it posts.
ReadClientLocked(q, c) ==
  [q EXCEPT !.pc = "post", !.client = c, !.posts = q.posts + 1]

\* client := r.client; r.mu.Unlock(); and client.Post is called
ReadClient(q, c) ==
  [q EXCEPT !.pc = "post", !.client = c, !.holds = FALSE, !.posts = q.posts + 1]

\* A Query that posts again when its POST has failed.
PostedRetry(q, o) ==
  [q EXCEPT !.pc = "set", !.holds = TRUE, !.out = o,
            !.posts = IF PostOutcomes[o].err THEN q.posts + 1 ELSE q.posts]

\* client.Post has returned outcome o, and setClientError has locked mu
Posted(q, o) == [q EXCEPT !.pc = "set", !.holds = TRUE, !.out = o]

\* What a call of Query that returned did: its request, the client it posted
\* to, the POSTs it issued, the outcome of its POST and what it returned.
Returned(q, ret) ==
  [req |-> q.req, client |-> q.client, posts |-> q.posts, out |-> q.out,
   ret |-> ret]

\* No call of Query has returned.
NoQuery == [req |-> 0]

\* mu after a step of a Query
MuOf(q) == IF q.holds THEN "query" ELSE ""

(***************************************************************************)
(* Specifications.                                                         *)
(***************************************************************************)
InitCommon ==
  /\ answer = [q \in {} |-> <<>>]
  /\ ins = [q \in {} |-> <<>>]
  /\ newID = <<>>
  /\ calls = EmptyBag
  /\ last = NoLast
  /\ nreq = 0
  /\ dmap = EmptyMap
  /\ sets = <<>>
  /\ mres = NoRes
  /\ hprev = NoHTTP
  /\ hlast = NoHTTP
  /\ now = StartTime
  /\ lastTick = 0
  /\ client = newClient(0)
  /\ firstErr = ZeroTime
  /\ mu = ""
  /\ queries = EmptyBag
  /\ qlast = NoQuery
  /\ rotatedAt = ZeroTime
  /\ stats = [f \in StatNames |-> 0]
  /\ handlers = [h \in 1..NumHandlers |-> [pc |-> "start", Id |-> 0]]

\* The cache under direct calls of Query, as in the unit tests.
InitCache ==
  /\ InitCommon
  /\ maxCacheSize \in 0..MaxCacheSizeBound
  /\ serverOverrides = EmptyMap
  /\ unqUpstream = ""
  /\ Upstream = ""

NextCache ==
  \/ QueryBypass
  \/ QueryHit
  \/ QueryLookupMiss
  \/ QueryMiss
  \/ MaintainTick
  \/ FlushCache

SpecCache == InitCache /\ [][NextCache]_vars

\* The front-end with the cache as its resolver.
Init ==
  /\ InitCommon
  /\ maxCacheSize = 1
  /\ \E cfg \in ServerConfigs :
       /\ serverOverrides = cfg.overrides
       /\ unqUpstream = cfg.unq
  /\ Upstream = ""

Next ==
  \/ ProduceID
  \/ HandlerBadQuestions
  \/ HandlerOverride
  \/ HandlerUnqualified
  \/ HandlerQueryHit
  \/ HandlerQueryMiss
  \/ QueryMiss
  \/ MaintainTick
  \/ FlushCache

Spec == Init /\ [][Next]_vars

(***************************************************************************)
(* DomainMap operations on a map built with Set.                           *)
(***************************************************************************)
\* Domains given to Set: with and without the trailing dot, in both cases,
\* a child, the parent and the root.
MapDomains ==
  { <<"a", ".", "c">>, <<"A", ".", "C", ".">>, <<"x", ".", "A", ".", "c">>,
    <<"c">>, <<Dot>> }

MapValues == {"v1", "v2"}

\* Names looked up.
MapQueries ==
  { <<"a", ".", "c">>, <<"A", ".", "c", ".">>, <<"x", ".", "a", ".", "c">>,
    <<"b", ".", "a", ".", "c">>, <<"z", ".", "x", ".", "a", ".", "c", ".">>,
    <<"c">>, <<"d", ".">>, <<Dot>> }

\* m.Set(domain, value)
MapSet ==
  /\ Len(sets) < MaxSets
  /\ \E d \in MapDomains, v \in MapValues :
       /\ dmap' = Set(dmap, d, v)
       /\ sets' = Append(sets, <<d, v>>)
  /\ mres' = NoRes
  /\ UNCHANGED <<answer, ins, maxCacheSize, serverOverrides, unqUpstream, newID,
                 calls, last, nreq, httpVars, clientVars, idVars, statVars>>

\* m.GetExact(name)
MapGetExact ==
  /\ \E x \in MapQueries :
       mres' = [op |-> "GetExact", name |-> x, res |-> GetExact(dmap, x)]
  /\ UNCHANGED <<answer, ins, maxCacheSize, serverOverrides, unqUpstream, newID,
                 calls, last, nreq, dmap, sets, httpVars, clientVars, idVars, statVars>>

\* m.GetMostSpecific(name)
MapGetMostSpecific ==
  /\ \E x \in MapQueries :
       mres' = [op |-> "GetMostSpecific", name |-> x, res |-> GetMostSpecific(dmap, x)]
  /\ UNCHANGED <<answer, ins, maxCacheSize, serverOverrides, unqUpstream, newID,
                 calls, last, nreq, dmap, sets, httpVars, clientVars, idVars, statVars>>

InitMap ==
  /\ InitCommon
  /\ maxCacheSize = 0
  /\ serverOverrides = EmptyMap
  /\ unqUpstream = ""
  /\ Upstream = ""

NextMap ==
  \/ MapSet
  \/ MapGetExact
  \/ MapGetMostSpecific

SpecMap == InitMap /\ [][NextMap]_vars

(***************************************************************************)
(* DomainMapFromString and the textual form of a map.                      *)
(***************************************************************************)
\* Inputs of DomainMapFromString.
MapStrings ==
  { <<>>,
    <<"d", ":", "1", ".", "1", ":", "1", "1">>,
    <<"D", "o", "-", "M", ":", "1", ":", "1">>,
    <<"d", ":", "1", ":", "1", ",", " ", "e", ".", ":", " ", "2", ":", "2", " ", ",", ",", "f", " ", ":", " ", "3", ":", "3", ",", " ", "g", ":">>,
    <<"a", "b", "c">>,
    <<"a", "b", ":", "d", "e", ",", "x", "y", "z">>,
    <<" ", ",", " ">>,
    <<"a", ":", "1", ",", "A", ".", ":", "2">>,
    <<":", "v">>,
    <<"a", ":", "1", ",", "b", ",", "c", ":", "2">> }

\* Domains and values given to Set as text.
TextDomains ==
  { <<"a", ".", "c">>,
    <<"A", ".", "C", ".">>,
    <<".">>,
    <<"a", ":", "c">>,
    <<" ", "a">> }

TextValues ==
  { <<"1", ":", "2">>,
    <<"v", ",", "w">>,
    <<" ", "v">>,
    <<>> }

\* m.Set(domain, value), on text
MapSetText ==
  /\ \E d \in TextDomains, v \in TextValues : dmap' = Set(dmap, d, v)
  /\ mres' = NoRes
  /\ UNCHANGED <<answer, ins, maxCacheSize, serverOverrides, unqUpstream, newID,
                 calls, last, nreq, sets, httpVars, clientVars, idVars, statVars>>

\* DomainMapFromString(s)
MapFromString ==
  /\ \E s \in MapStrings :
       mres' = [op |-> "FromString", s |-> s, res |-> DomainMapFromString(s)]
  /\ UNCHANGED <<answer, ins, maxCacheSize, serverOverrides, unqUpstream, newID,
                 calls, last, nreq, dmap, sets, httpVars, clientVars, idVars, statVars>>

\* DomainMapFromString of the text of the current map
MapRoundTrip ==
  /\ \E o \in KeyOrders(dmap) :
       mres' = [op |-> "RoundTrip", s |-> Serialize(dmap, o),
                res |-> DomainMapFromString(Serialize(dmap, o))]
  /\ UNCHANGED <<answer, ins, maxCacheSize, serverOverrides, unqUpstream, newID,
                 calls, last, nreq, dmap, sets, httpVars, clientVars, idVars, statVars>>

NextParse == MapSetText \/ MapFromString \/ MapRoundTrip

SpecParse == InitMap /\ [][NextParse]_vars

(***************************************************************************)
(* The DoH server under GET and POST requests.                             *)
(***************************************************************************)
Zeros(n) == [i \in 1..n |-> 0]

\* An OPT record whose data is a padding option, n bytes in all.
OptPadding(n) ==
  [Name |-> <<>>, Rrtype |-> 41, Class |-> 4096, Ttl |-> 0,
   Rdata |-> <<0, 12>> \o PackUint16(n - 4) \o Zeros(n - 4)]

\* The query padded to a wire length of total bytes.
PaddedQuery(total) ==
  Pack([DoHQuery EXCEPT !.Extra = <<OptPadding(total - Len(Pack(DoHQuery).b) - 11)>>]).b

\* The DNS messages clients send, as bytes: the query; the query padded to the
\* body limit, and to one byte more; the query followed by bytes that are not
\* part of it; no bytes; three bytes; 5000 zero bytes.
DoHMessages ==
  << Pack(DoHQuery).b,
     PaddedQuery(BodyLimit),
     PaddedQuery(BodyLimit + 1),
     Pack(DoHQuery).b \o Zeros(BodyLimit + 1 - Len(Pack(DoHQuery).b)),
     <<>>,
     <<1, 2, 3>>,
     Zeros(5000) >>

HTTPRequest(method, dns, ct, body, bodyErr) ==
  [Method |-> method, Dns |-> dns, ContentType |-> ct, Body |-> body,
   BodyErr |-> bodyErr]

Get(dns) == HTTPRequest("GET", dns, "", <<>>, FALSE)
Post(ct, body) == HTTPRequest("POST", <<>>, ct, body, FALSE)

\* The requests clients send: every message by GET and by POST, then texts
\* that are not base64url, other media types and methods, a body that cannot
\* be read.
HTTPRequests ==
  [i \in 1..Len(DoHMessages) |-> Get(EncodeToString(DoHMessages[i]))]
  \o [i \in 1..Len(DoHMessages) |-> Post(DNSMessageType, DoHMessages[i])]
  \o << Get(<<Bang, Bang, Bang>>),
        Get(EncodeToString(DoHMessages[1]) \o <<Pad>>),
        Get(<<25>>),
        Get(<<Newline>> \o EncodeToString(DoHMessages[1]) \o <<Newline>>),
        Post("Application/DNS-Message; charset=utf-8", DoHMessages[1]),
        Post("text/plain", DoHMessages[1]),
        Post("", DoHMessages[1]),
        Post("application/dns-message; q", DoHMessages[1]),
        HTTPRequest("POST", <<>>, DNSMessageType, DoHMessages[1], TRUE),
        HTTPRequest("HEAD", EncodeToString(DoHMessages[1]), "", <<>>, FALSE),
        HTTPRequest("PUT", <<>>, DNSMessageType, DoHMessages[1], FALSE) >>

\* Resolve on each request, for each behaviour of the upstream.
Responses ==
  [up \in UpstreamBehaviours |->
     [i \in 1..Len(HTTPRequests) |-> Resolve(HTTPRequests[i], up)]]

\* Server.Resolve on one request
ServeResolve ==
  /\ \E i \in 1..Len(HTTPRequests) :
       hlast' = [req |-> i, resp |-> Responses[Upstream][i]]
  /\ hprev' = hlast
  /\ UNCHANGED <<answer, ins, maxCacheSize, serverOverrides, unqUpstream, newID,
                 calls, last, nreq, mapVars, Upstream, clientVars, idVars, statVars>>

InitDoH ==
  /\ InitCommon
  /\ maxCacheSize = 0
  /\ serverOverrides = EmptyMap
  /\ unqUpstream = ""
  /\ Upstream \in UpstreamBehaviours

NextDoH == ServeResolve

SpecDoH == InitDoH /\ [][NextDoH]_vars

(***************************************************************************)
(* The DoH client: queries in parallel, the clock and Maintain's ticker.   *)
(***************************************************************************)
\* The frame of the DoH client's actions.
IDFrame ==
  UNCHANGED <<answer, ins, maxCacheSize, serverOverrides, unqUpstream,
              calls, last, nreq, mapVars, httpVars, clientVars, statVars>>

\* A receive that leaves the value in the channel.
ReceivePeek(ch) == [v |-> Head(ch), ch |-> ch]

\* <-newID on a channel that holds a value: the value received and the
\* channel after it.
Receive(ch) == [v |-> Head(ch), ch |-> Tail(ch)]

\* A goroutine of Handler comes to r.Id = <-newID.
HandlerWaits(h) ==
  /\ handlers[h].pc = "start"
  /\ handlers' = [handlers EXCEPT ![h].pc = "recv"]
  /\ UNCHANGED newID
  /\ IDFrame

\* The receive of a goroutine at r.Id = <-newID completes.
HandlerReceives(h) ==
  /\ handlers[h].pc = "recv"
  /\ newID # <<>>
  /\ handlers' = [handlers EXCEPT ![h] = [pc |-> "query", Id |-> Receive(newID).v]]
  /\ newID' = Receive(newID).ch
  /\ IDFrame

InitID ==
  /\ InitCommon
  /\ maxCacheSize = 0
  /\ serverOverrides = EmptyMap
  /\ unqUpstream = ""
  /\ Upstream = ""

NextID ==
  \/ ProduceID
  \/ \E h \in 1..NumHandlers : HandlerWaits(h)
  \/ \E h \in 1..NumHandlers : HandlerReceives(h)

SpecID == InitID /\ [][NextID]_vars

\* The goroutine of init keeps running, and a goroutine blocked at a receive
\* goes on when the channel holds a value.
SpecIDFair ==
  /\ SpecID
  /\ WF_vars(ProduceID)
  /\ \A h \in 1..NumHandlers : WF_vars(HandlerReceives(h))

ClientFrame ==
  UNCHANGED <<answer, ins, maxCacheSize, serverOverrides, unqUpstream, newID,
              calls, last, nreq, mapVars, httpVars, idVars, statVars>>

Replace(q, q2) == (queries (-) SetToBag({q})) (+) SetToBag({q2})

\* Query is called: a request that does not pack returns at once; for one that
\* packs, the call locks mu.
QueryStart ==
  /\ \E r \in 1..Len(ClientRequests) :
       IF ClientPacks[r]
       THEN /\ BagCardinality(queries) < NumProcs
            /\ mu = ""
            /\ queries' = queries (+) SetToBag({Locked(NewQuery(r))})
            /\ mu' = MuOf(Locked(NewQuery(r)))
            /\ UNCHANGED qlast
       ELSE /\ qlast' = Returned(NewQuery(r), QueryError("cannot pack query"))
            /\ UNCHANGED <<queries, mu>>
  /\ UNCHANGED <<now, lastTick, client, firstErr, rotatedAt>>
  /\ ClientFrame

\* The call reads r.client, unlocks mu and calls client.Post.
QueryRead ==
  /\ \E q \in BagToSet(queries) :
       /\ q.pc = "read"
       /\ queries' = Replace(q, ReadClient(q, client))
       /\ mu' = MuOf(ReadClient(q, client))
  /\ UNCHANGED <<now, lastTick, client, firstErr, qlast, rotatedAt>>
  /\ ClientFrame

\* client.Post returns, and setClientError locks mu.
PostReturns ==
  /\ mu = ""
  /\ \E q \in BagToSet(queries), o \in 1..Len(PostOutcomes) :
       /\ q.pc = "post"
       /\ queries' = Replace(q, Posted(q, o))
       /\ mu' = MuOf(Posted(q, o))
  /\ UNCHANGED <<now, lastTick, client, firstErr, qlast, rotatedAt>>
  /\ ClientFrame

\* setClientError updates firstErr and unlocks mu; Query checks the response
\* and returns.
QueryRecord ==
  /\ \E q \in BagToSet(queries) :
       /\ q.pc = "set"
       /\ firstErr' = setClientError(firstErr, PostErr(q.out), now)
       /\ queries' = queries (-) SetToBag({q})
       /\ qlast' = Returned(q, QueryResults[q.out])
  /\ mu' = ""
  /\ UNCHANGED <<now, lastTick, client, rotatedAt>>
  /\ ClientFrame

\* Maintain's ticker fires every TickPeriod seconds.
TickDue == now % TickPeriod = 0 /\ lastTick < now

\* maybeRotateClient locks mu.
MaintainLock ==
  /\ TickDue
  /\ mu = ""
  /\ mu' = "maintain"
  /\ UNCHANGED <<now, lastTick, client, firstErr, queries, qlast, rotatedAt>>
  /\ ClientFrame

\* maybeRotateClient looks at firstErr, rotates the client or not, and
\* unlocks mu.
MaintainRotate ==
  /\ mu = "maintain"
  /\ client' = maybeRotateClient(client, firstErr, now).client
  /\ firstErr' = maybeRotateClient(client, firstErr, now).firstErr
  /\ lastTick' = now
  /\ rotatedAt' = IF maybeRotateClient(client, firstErr, now).client # client
                  THEN now ELSE rotatedAt
  /\ mu' = ""
  /\ UNCHANGED <<now, queries, qlast>>
  /\ ClientFrame

\* A second passes. The sections under mu take no time, and a tick is handled
\* when it is due.
Advance ==
  /\ mu = ""
  /\ ~TickDue
  /\ now < MaxTime
  /\ now' = now + 1
  /\ UNCHANGED <<lastTick, client, firstErr, mu, queries, qlast, rotatedAt>>
  /\ ClientFrame

InitClient ==
  /\ InitCommon
  /\ maxCacheSize = 0
  /\ serverOverrides = EmptyMap
  /\ unqUpstream = ""
  /\ Upstream = ""

NextClient ==
  \/ QueryStart
  \/ QueryRead
  \/ PostReturns
  \/ QueryRecord
  \/ MaintainLock
  \/ MaintainRotate
  \/ Advance

SpecClient == InitClient /\ [][NextClient]_vars

(***************************************************************************)
(* The three resolving components, each on its own: the front-end of the   *)
(* tests' configuration with its cache, the cache under direct calls, and  *)
(* the DoH client.                                                         *)
(***************************************************************************)
FrontEndRuns == serverOverrides # EmptyMap
CacheRuns == serverOverrides = EmptyMap /\ maxCacheSize > 0
ClientRuns == serverOverrides = EmptyMap /\ maxCacheSize = 0

InitParts ==
  \/ Init /\ serverOverrides = OverridesTest /\ unqUpstream = "U"
  \/ InitCache /\ maxCacheSize = 1
  \/ InitClient

NextParts ==
  \/ FrontEndRuns /\ Next
  \/ CacheRuns /\ NextCache
  \/ ClientRuns /\ NextClient

SpecParts == InitParts /\ [][NextParts]_vars

(***************************************************************************)
(* Properties.                                                             *)
(***************************************************************************)
Min(a, b) == IF a < b THEN a ELSE b

\* All RRs of the list carry this TTL.
AllTTL(a, t) == \A i \in 1..Len(a) : a[i].Ttl = t

\* The cacheability clauses of the specification.
Cacheable(question, reply) ==
  /\ reply.Rcode = 0
  /\ reply.Response = TRUE
  /\ reply.Opcode = 0
  /\ Len(reply.Answer) >= 1
  /\ Len(reply.Question) = 1
  /\ reply.Truncated = FALSE
  /\ <<reply.Question[1].Name, reply.Question[1].Qtype, reply.Question[1].Qclass>>
       = <<question.Name, question.Qtype, question.Qclass>>

\* The step returns from the miss path of Query for the call c.
MissReturns(c) == BagIn(c, calls) /\ calls' = calls (-) SetToBag({c})

\* The step is the lookup of call c, which misses.
MissStarts(c) == calls' = calls (+) SetToBag({c})

\* C1: the number of entries of the cache map never exceeds maxCacheSize,
\* under any interleaving of queries, sweeps and flushes.
C1_SizeBounded == Cardinality(DOMAIN answer) <= maxCacheSize

\* The cache is full while a miss for a question it does not hold is pending.
C1_Witness ==
  /\ maxCacheSize >= 1
  /\ Cardinality(DOMAIN answer) = maxCacheSize
  /\ \E c \in BagToSet(calls) : c.r.Question[1] \notin DOMAIN answer

\* C2: a reply obtained on a miss is recorded only if every cacheability
\* clause holds; when a clause fails the cache map is unchanged, the reply is
\* returned as the backing resolver gave it, and the question is still absent
\* from the cache, so that the same query misses again.
C2_OnlyCacheable ==
  [][\A c \in BagToSet(calls) : MissReturns(c) =>
       LET q == c.r.Question[1] IN
         /\ last'.stored => ~last'.err /\ Cacheable(q, last'.back)
         /\ answer' # answer => last'.stored
         /\ (~last'.err /\ ~Cacheable(q, last'.back)) =>
              /\ answer' = answer
              /\ last'.reply = last'.back
              /\ (q \notin DOMAIN answer => q \notin DOMAIN answer')]_vars

\* An NXDOMAIN reply was returned, the question is not in the cache and an
\* identical query has missed again.
C2_Witness ==
  /\ last.kind = "miss"
  /\ ~last.err
  /\ last.back.Rcode = RcodeNameError
  /\ last.reply = last.back
  /\ last.client.Question[1] \notin DOMAIN answer
  /\ \E c \in BagToSet(calls) : c.r.Question = last.client.Question

\* C3: every reply the front-end writes carries the ID the client sent, on
\* every path, whatever ID was substituted upstream.
C3_ReplyID == last.route # "none" /\ last.route # "query" => last.written.Id = last.client.Id

\* A reply came back from the resolver under another ID than the client's,
\* for a request sent upstream under another ID than the client's.
C3_Witness ==
  /\ last.route = "resolver"
  /\ ~last.err
  /\ last.sent.Id # last.client.Id
  /\ last.reply.Id # last.client.Id
  /\ last.written.Id = last.client.Id

DataOf(a) == [i \in 1..Len(a) |-> a[i].Data]

\* The step is a direct call of Query that returns at once with a hit.
HitReturns == nreq' = nreq + 1 /\ calls' = calls /\ last'.kind = "hit"

\* C5: a hit returns RRs whose TTL is the entry's remaining TTL, and the TTLs
\* successive hits return for a question do not increase while the question
\* is not inserted again.
C5_HitTTL ==
  [][HitReturns =>
       LET q == last'.client.Question[1]
           t == Min(ins[q].up, maxTTL) - maintenancePeriod * ins[q].ticks
       IN /\ Len(last'.reply.Answer) > 0
          /\ AllTTL(last'.reply.Answer, t)
          /\ (ins[q].lastHit >= 0 => t <= ins[q].lastHit)]_vars

\* Two hits of one entry, the second with a smaller TTL than the first.
C5_Witness ==
  /\ last.kind = "hit"
  /\ \E q \in DOMAIN ins :
       /\ q = last.client.Question[1]
       /\ last.prev > ins[q].lastHit
       /\ ins[q].lastHit > 0
       /\ AllTTL(last.reply.Answer, ins[q].lastHit)

\* C6: a miss whose reply is cacheable with TTL >= minTTL while the cache is
\* not full calls the backing resolver once and records the entry; a query
\* for a question in the cache is a hit, never calls the backing resolver and
\* returns the answer data that was recorded.
C6_HitAfterMiss ==
  [][/\ \A c \in BagToSet(calls) : MissReturns(c) =>
          LET q == c.r.Question[1] IN
            ( /\ ~last'.err
              /\ Cacheable(q, last'.back)
              /\ Min(last'.back.Answer[1].Ttl, maxTTL) >= minTTL
              /\ Cardinality(DOMAIN answer) < maxCacheSize )
            => /\ last'.backCalls = 1
               /\ last'.stored
               /\ q \in DOMAIN answer'
               /\ DataOf(answer'[q]) = DataOf(last'.back.Answer)
               /\ DataOf(last'.reply.Answer) = DataOf(last'.back.Answer)
     /\ \A c \in BagToSet(calls') : MissStarts(c) =>
          c.r.Question[1] \notin DOMAIN answer
     /\ HitReturns =>
          /\ last'.backCalls = 0
          /\ ~last'.err
          /\ DataOf(last'.reply.Answer) = ins[last'.client.Question[1]].data]_vars

\* A hit on a two-RR entry that has lived through a sweep.
C6_Witness ==
  /\ last.kind = "hit"
  /\ last.backCalls = 0
  /\ last.age >= 1
  /\ DataOf(last.reply.Answer) = <<"d2", "d1">>

\* C7: when the cache holds maxCacheSize entries (also when maxCacheSize is
\* 0) a miss returns the backing reply and neither inserts nor removes
\* anything.
C7_NoEviction ==
  [][\A c \in BagToSet(calls) :
       (MissReturns(c) /\ Cardinality(DOMAIN answer) >= maxCacheSize) =>
          /\ answer' = answer
          /\ ~last'.stored
          /\ last'.reply = last'.back]_vars

\* A storable reply for a new question was dropped by a full cache of size 1
\* that still holds its entry.
C7_Witness ==
  /\ maxCacheSize = 1
  /\ Cardinality(DOMAIN answer) = 1
  /\ last.kind = "miss"
  /\ ~last.err
  /\ ~last.stored
  /\ Cacheable(last.client.Question[1], last.back)
  /\ Min(last.back.Answer[1].Ttl, maxTTL) >= minTTL
  /\ last.reply = last.back
  /\ last.client.Question[1] \notin DOMAIN answer

\* C8 as stated: every reply Query returns for a cacheable answer whose
\* upstream TTL exceeds maxTTL carries TTL = maxTTL in all its RRs, on the
\* miss and on a following hit before any sweep.
C8_AlwaysCapped ==
  /\ (last.kind = "miss" /\ ~last.err
        /\ Cacheable(last.client.Question[1], last.back)
        /\ last.back.Answer[1].Ttl > maxTTL)
     => AllTTL(last.reply.Answer, maxTTL)
  /\ (last.kind = "hit" /\ last.up > maxTTL /\ last.age = 0)
     => AllTTL(last.reply.Answer, maxTTL)

\* C8 amended: the reply of a miss carries TTL = maxTTL in all its RRs when
\* the upstream TTL exceeds maxTTL and the miss stores the answer; a miss
\* that does not store it (the cache is full) returns the backing reply
\* unchanged; a hit on an entry stored from an upstream TTL above maxTTL,
\* before any sweep of it, carries TTL = maxTTL in all its RRs.
C8_CappedWhenStored ==
  /\ (last.kind = "miss" /\ last.stored /\ last.back.Answer[1].Ttl > maxTTL)
     => AllTTL(last.reply.Answer, maxTTL)
  /\ (last.kind = "miss" /\ ~last.stored) => last.reply = last.back
  /\ (last.kind = "hit" /\ last.up > maxTTL /\ last.age = 0)
     => AllTTL(last.reply.Answer, maxTTL)

\* A hit, before any sweep, on a two-RR entry whose upstream TTL was 8000.
C8_Witness ==
  /\ last.kind = "hit"
  /\ last.up = 8000
  /\ last.age = 0
  /\ Len(last.reply.Answer) = 2
  /\ AllTTL(last.reply.Answer, maxTTL)

\* The labels of the canonical form of k end the labels of the canonical
\* form of x.
IsLabelSuffix(k, x) ==
  LET lk == SplitDomainName(CanonicalName(k))
      lx == SplitDomainName(CanonicalName(x))
  IN /\ Len(lk) <= Len(lx)
     /\ SubSeq(lx, Len(lx) - Len(lk) + 1, Len(lx)) = lk

MatchingKeys(m, x) == {k \in DOMAIN m : IsLabelSuffix(k, x)}

MostSpecificKey(m, x) ==
  CHOOSE k \in MatchingKeys(m, x) :
    \A j \in MatchingKeys(m, x) : CountLabel(j) <= CountLabel(k)

\* The message is the SERVFAIL answer or carries only data of this server.
FromServer(w, addr) ==
  \/ w.Rcode = RcodeServerFailure
  \/ Len(w.Answer) > 0 /\ \A i \in 1..Len(w.Answer) : w.Answer[i].Data = addr

\* C9 as stated: a single-question request whose name has an override-map
\* entry as a suffix is exchanged with the address of the most specific
\* such entry, without the backing resolver or the cache; a name no entry
\* is a suffix of is not overridden.
C9_OverrideBySuffix ==
  last.route \in {"override", "unqualified", "resolver"} =>
    LET x == last.client.Question[1].Name IN
      IF MatchingKeys(serverOverrides, x) # {}
      THEN /\ last.route = "override"
           /\ last.upstream = serverOverrides[MostSpecificKey(serverOverrides, x)]
           /\ last.backCalls = 0
           /\ last.kind = "none"
           /\ FromServer(last.written, last.upstream)
      ELSE last.route # "override"

\* Number of dots of a fully qualified name, none for the root.
DotCount(x) == IF x = <<".">> THEN 0 ELSE Cardinality({i \in 1..Len(x) : x[i] = "."})

HandlerReturns == last' # last /\ last'.route \notin {"none", "query"}

\* C11: a request with zero or several questions is answered with SERVFAIL
\* and nothing else happens: no override, unqualified or backing-resolver
\* exchange, no ID taken from newID, the cache unchanged.
C11_BadQuestions ==
  [][(HandlerReturns /\ Len(last'.client.Question) # 1) =>
       /\ last'.route = "questions"
       /\ last'.written.Rcode = RcodeServerFailure
       /\ last'.written.Answer = <<>>
       /\ last'.upstream = ""
       /\ last'.backCalls = 0
       /\ last'.kind = "none"
       /\ newID' = newID
       /\ answer' = answer
       /\ calls' = calls]_vars

\* A two-question request was failed while an ID was waiting in newID and
\* the cache held an entry.
C11_Witness ==
  /\ last.route = "questions"
  /\ Len(last.client.Question) = 2
  /\ last.written.Rcode = RcodeServerFailure
  /\ newID # <<>>
  /\ DOMAIN answer # {}

\* C12: when the upstream selected for a request fails (the override server,
\* the unqualified upstream or the backing resolver), the client receives
\* SERVFAIL and no other upstream is tried for that request.
C12_UpstreamFailure ==
  (last.route \in {"override", "unqualified", "resolver"} /\ last.err) =>
    /\ last.written.Rcode = RcodeServerFailure
    /\ last.written.Answer = <<>>
    /\ last.written.Id = last.client.Id
    /\ last.route = "override" =>
         /\ last.upstream = GetMostSpecific(serverOverrides, last.client.Question[1].Name).v
         /\ last.backCalls = 0
         /\ last.kind = "none"
    /\ last.route = "unqualified" =>
         /\ last.upstream = unqUpstream
         /\ last.backCalls = 0
         /\ last.kind = "none"
    /\ last.route = "resolver" =>
         /\ last.upstream = ""
         /\ last.backCalls = 1
         /\ ~last.stored

\* The override server of a request failed while an unqualified upstream
\* was configured and the cache held an entry.
C12_Witness ==
  /\ last.route = "override"
  /\ last.err
  /\ last.written.Rcode = RcodeServerFailure
  /\ unqUpstream # ""
  /\ DOMAIN answer # {}

\* The reply of the upstream as Handler passes it to writeReply.
Unwritten ==
  IF last.route = "resolver" THEN [last.reply EXCEPT !.Id = last.client.Id] ELSE last.reply

\* The request of a successful reply came over this network.
WroteReply(net) ==
  /\ last.route \in {"override", "unqualified", "resolver"}
  /\ ~last.err
  /\ last.net = net

C14_MostSpecific ==
  mres.op = "GetMostSpecific" =>
    IF MatchingKeys(dmap, mres.name) # {}
    THEN /\ mres.res.ok
         /\ mres.res.v = dmap[MostSpecificKey(dmap, mres.name)]
    ELSE ~mres.res.ok

\* Two names are the same key when they agree, ignoring case, once one trailing
\* dot is dropped.
NoTrailingDot(x) ==
  IF Len(x) > 0 /\ x[Len(x)] = Dot THEN SubSeq(x, 1, Len(x) - 1) ELSE x
SameKey(x, y) == ToLower(NoTrailingDot(x)) = ToLower(NoTrailingDot(y))
SetsOf(x) == {i \in 1..Len(sets) : SameKey(sets[i][1], x)}
LastSetOf(x) == CHOOSE i \in SetsOf(x) : \A j \in SetsOf(x) : j <= i

\* C15: after any sequence of Sets, GetExact(name) returns the value of the
\* last Set whose domain has the same canonical form as name, and not-found
\* if there was none (so a parent or a child of a stored key does not match).
C15_GetExact ==
  mres.op = "GetExact" =>
    IF SetsOf(mres.name) # {}
    THEN /\ mres.res.ok
         /\ mres.res.v = sets[LastSetOf(mres.name)][2]
    ELSE /\ ~mres.res.ok
         /\ mres.res.v = ""

\* An overwritten key is read back under a name that differs from both Sets'
\* domains in case or trailing dot, with a child of the key also stored.
C15_Witness ==
  /\ mres.op = "GetExact"
  /\ mres.name = <<"A", ".", "c", ".">>
  /\ Len(sets) = 3
  /\ sets[1] = <<<<"a", ".", "c">>, "v1">>
  /\ sets[2][1] = <<"x", ".", "A", ".", "c">>
  /\ sets[3] = <<<<"A", ".", "C", ".">>, "v2">>
  /\ mres.res = [v |-> "v2", ok |-> TRUE]

\* The items of a string, each named by the position of the comma before it
\* (0 for the first item).
ItemStarts(s) == {0} \cup {i \in 1..Len(s) : s[i] = Comma}
ItemEnd(s, p) ==
  LET later == {i \in (p + 1)..Len(s) : s[i] = Comma} \cup {Len(s) + 1}
  IN CHOOSE i \in later : \A j \in later : i <= j
Item(s, p) == SubSeq(s, p + 1, ItemEnd(s, p) - 1)
NonSpace(t) == {i \in 1..Len(t) : t[i] # Space}
Trimmed(t) ==
  IF NonSpace(t) = {} THEN <<>>
  ELSE SubSeq(t, CHOOSE i \in NonSpace(t) : \A j \in NonSpace(t) : i <= j,
                 CHOOSE i \in NonSpace(t) : \A j \in NonSpace(t) : j <= i)
Colons(t) == {i \in 1..Len(t) : t[i] = Colon}
FirstColon(t) == CHOOSE i \in Colons(t) : \A j \in Colons(t) : i <= j
ItemDomain(t) == Trimmed(SubSeq(t, 1, FirstColon(t) - 1))
ItemValue(t) == Trimmed(SubSeq(t, FirstColon(t) + 1, Len(t)))
\* The items that are not empty once trimmed.
Kept(s) == {p \in ItemStarts(s) : NonSpace(Item(s, p)) # {}}
ItemsFor(s, k) == {p \in Kept(s) : CanonicalName(ItemDomain(Item(s, p))) = k}
LastItemFor(s, k) == CHOOSE p \in ItemsFor(s, k) : \A q \in ItemsFor(s, k) : q <= p

\* C16: DomainMapFromString takes the items between commas, skips those that
\* are empty once trimmed, cuts each at its first colon into a domain and a
\* value, both trimmed, and stores the value under the canonical domain; an
\* item without a colon gives an error and no map.
C16_FromString ==
  mres.op = "FromString" =>
    IF \E p \in Kept(mres.s) : Colons(Item(mres.s, p)) = {}
    THEN mres.res.err /\ mres.res.nil
    ELSE /\ ~mres.res.err
         /\ ~mres.res.nil
         /\ DOMAIN mres.res.m =
              {CanonicalName(ItemDomain(Item(mres.s, p))) : p \in Kept(mres.s)}
         /\ \A k \in DOMAIN mres.res.m :
              mres.res.m[k] = ItemValue(Item(mres.s, LastItemFor(mres.s, k)))

\* White space, an empty item, a value with a colon and an empty value, parsed.
C16_Witness ==
  /\ mres.op = "FromString"
  /\ mres.s = <<"d", ":", "1", ":", "1", ",", " ", "e", ".", ":", " ", "2", ":", "2", " ", ",", ",", "f", " ", ":", " ", "3", ":", "3", ",", " ", "g", ":">>
  /\ ~mres.res.err
  /\ DOMAIN mres.res.m = {<<"d", ".">>, <<"e", ".">>, <<"f", ".">>, <<"g", ".">>}
  /\ mres.res.m[<<"e", ".">>] = <<"2", ":", "2">>
  /\ mres.res.m[<<"g", ".">>] = <<>>

\* C17 as stated: the text of any map built by Sets parses back to the map.
C17_RoundTrip ==
  mres.op = "RoundTrip" => ~mres.res.err /\ mres.res.m = dmap

\* A map whose text reads back: no key has a comma, a colon or leading white
\* space, no value has a comma or white space at either end.
CleanKey(k) == k[1] # Space /\ \A i \in 1..Len(k) : k[i] \notin {Comma, Colon}
CleanValue(v) ==
  /\ \A i \in 1..Len(v) : v[i] # Comma
  /\ Len(v) > 0 => v[1] # Space /\ v[Len(v)] # Space
Clean(m) == \A k \in DOMAIN m : CleanKey(k) /\ CleanValue(m[k])

\* C17, amended: the text of a clean map built by Sets parses back to the map.
C17_RoundTripClean ==
  mres.op = "RoundTrip" /\ Clean(dmap) => ~mres.res.err /\ mres.res.m = dmap

\* A clean map of two keys, one the root, one value with a colon, read back.
C17_Witness ==
  /\ mres.op = "RoundTrip"
  /\ Clean(dmap)
  /\ DOMAIN dmap = {<<"a", ".", "c", ".">>, <<Dot>>}
  /\ dmap[<<Dot>>] = <<"1", ":", "2">>
  /\ dmap[<<"a", ".", "c", ".">>] = <<>>
  /\ mres.res.m = dmap

\* The request handled last, the one before it.
LastReq == HTTPRequests[hlast.req]
PrevReq == HTTPRequests[hprev.req]
IsDoHGet(req) == req.Method = "GET" /\ req.Dns # <<>>
IsPost(req) == req.Method = "POST"
HasDoHType(req) ==
  /\ ~ParseMediaType(req.ContentType).err
  /\ ParseMediaType(req.ContentType).mt = DNSMessageType
Rejected(resp, status) == resp.status = status /\ resp.asked = <<>>

\* C18 as stated: a request is a DoH GET (non-empty dns parameter; 400 when it
\* does not decode), a DoH POST (media type application/dns-message; 400 when
\* the body cannot be read), or else is answered 415 and the upstream is not
\* contacted.
C18_Classification ==
  hlast # NoHTTP =>
    IF IsDoHGet(LastReq)
    THEN /\ hlast.resp.doh = "GET"
         /\ DecodeString(LastReq.Dns).err => Rejected(hlast.resp, StatusBadRequest)
    ELSE IF IsPost(LastReq) /\ HasDoHType(LastReq)
    THEN /\ hlast.resp.doh = "POST"
         /\ LastReq.BodyErr => Rejected(hlast.resp, StatusBadRequest)
    ELSE /\ hlast.resp.doh = "none"
         /\ Rejected(hlast.resp, StatusUnsupportedMediaType)

\* C18, amended: as above, but a POST whose Content-Type does not parse as a
\* media type is answered 400; neither it nor a 415 contacts the upstream.
C18_ClassificationParse ==
  hlast # NoHTTP =>
    IF IsDoHGet(LastReq)
    THEN /\ hlast.resp.doh = "GET"
         /\ DecodeString(LastReq.Dns).err => Rejected(hlast.resp, StatusBadRequest)
    ELSE IF IsPost(LastReq) /\ ParseMediaType(LastReq.ContentType).err
    THEN /\ hlast.resp.doh = "none"
         /\ Rejected(hlast.resp, StatusBadRequest)
    ELSE IF IsPost(LastReq) /\ HasDoHType(LastReq)
    THEN /\ hlast.resp.doh = "POST"
         /\ LastReq.BodyErr => Rejected(hlast.resp, StatusBadRequest)
    ELSE /\ hlast.resp.doh = "none"
         /\ Rejected(hlast.resp, StatusUnsupportedMediaType)

\* A POST without a Content-Type answered 400, after a POST of text/plain
\* answered 415, with an upstream that would have answered.
C18_Witness ==
  /\ hprev # NoHTTP
  /\ hlast # NoHTTP
  /\ Upstream = "answers"
  /\ IsPost(PrevReq) /\ PrevReq.ContentType = "text/plain"
  /\ Rejected(hprev.resp, StatusUnsupportedMediaType)
  /\ IsPost(LastReq) /\ LastReq.ContentType = ""
  /\ Rejected(hlast.resp, StatusBadRequest)

\* C19 as stated: of the DoH POSTs whose body can be read, one with a body of
\* exactly 4092 bytes (a DNS message) is resolved, and one with a body of
\* 4093 bytes or more is answered 400 and nothing is sent to the upstream.
C19_BodyLimit ==
  hlast # NoHTTP /\ IsPost(LastReq) /\ HasDoHType(LastReq) /\ ~LastReq.BodyErr =>
    /\ Len(LastReq.Body) = BodyLimit /\ ~Unpack(LastReq.Body).err =>
         hlast.resp.asked = <<Unpack(LastReq.Body).m>>
    /\ Len(LastReq.Body) > BodyLimit => Rejected(hlast.resp, StatusBadRequest)

\* The GET and the POST that carry the same message, one after the other.
SameMessage(get, post) ==
  /\ get.Method = "GET"
  /\ IsPost(post) /\ HasDoHType(post) /\ ~post.BodyErr
  /\ get.Dns = EncodeToString(post.Body)
SameResponse(a, b) == a.status = b.status /\ a.reply = b.reply

\* C20 as stated: with the same upstream, the GET with dns=base64url(M) and the
\* POST with body M get the same status and the same reply bytes.
C20_GetPost ==
  hprev # NoHTTP /\ SameMessage(PrevReq, LastReq) =>
    SameResponse(hprev.resp, hlast.resp)

\* C20, amended: the same for a message M of 1 to 4092 bytes.
C20_GetPostWithinLimit ==
  hprev # NoHTTP /\ SameMessage(PrevReq, LastReq)
    /\ Len(LastReq.Body) \in 1..BodyLimit =>
      SameResponse(hprev.resp, hlast.resp)

\* The bytes of the last request that resolveDoH was given: the dns parameter
\* decoded, or the body as read.
Decoded(req) ==
  IF IsDoHGet(req) THEN DecodeString(req.Dns) ELSE ReadAllLimit(req, BodyLimit)
ReachedResolveDoH ==
  /\ hlast # NoHTTP
  /\ hlast.resp.doh \in {"GET", "POST"}
  /\ ~Decoded(LastReq).err

\* What C21 asks of a response to the query bytes unpacked as u, with fromUp
\* the upstream's answer to it and packed the answer packed.
StatusAsStated(resp, u, fromUp, packed) ==
  IF u.err THEN Rejected(resp, StatusBadRequest)
  ELSE IF fromUp.err THEN resp.status = StatusFailedDependency
  ELSE IF fromUp.nil THEN resp.status = StatusRequestTimeout
  ELSE IF packed.err THEN resp.status = StatusFailedDependency
  ELSE /\ resp.status = StatusOK
       /\ resp.ct = DNSMessageType
       /\ resp.reply = packed.b

\* C21: for a decoded DoH request the one response has status 400 when the
\* bytes do not unpack as a DNS message (and the upstream is not contacted),
\* 424 when the exchange with the upstream fails, 408 when the upstream gives
\* no reply, 424 when the reply cannot be packed, and otherwise 200 with
\* Content-Type application/dns-message and the packed upstream reply as body.
C21_Status ==
  ReachedResolveDoH =>
    \A u \in {Unpack(Decoded(LastReq).b)} :
      \A fromUp \in {ExchangeUpstream(u.m, Upstream)} :
        StatusAsStated(hlast.resp, u, fromUp, Pack(fromUp.m))

\* A POST whose body is read but does not unpack, answered 400 with nothing
\* sent to the upstream, and then a query answered 200 with the packed reply.
C21_Witness ==
  /\ hprev # NoHTTP
  /\ hprev.resp.doh = "POST"
  /\ ~ReadAllLimit(PrevReq, BodyLimit).err
  /\ Rejected(hprev.resp, StatusBadRequest)
  /\ ReachedResolveDoH
  /\ hlast.resp.asked # <<>>
  /\ hlast.resp.status = StatusOK
  /\ hlast.resp.ct = DNSMessageType
  /\ ~Unpack(hlast.resp.reply).err

\* A message of exactly 4092 bytes sent by GET, then by POST, and answered.
C20_Witness ==
  /\ hprev # NoHTTP
  /\ SameMessage(PrevReq, LastReq)
  /\ Len(LastReq.Body) = BodyLimit
  /\ hlast.resp.status = StatusOK
  /\ hlast.resp.reply # <<>>
  /\ SameResponse(hprev.resp, hlast.resp)

\* The steps of the DoH client: call q records the outcome of its POST (it
\* leaves setClientError, and returns); Maintain's tick ends.
Recording(q) == q.pc = "set" /\ CopiesIn(q, queries') < CopiesIn(q, queries)
Failed(q) == PostOutcomes[q.out].err
TickEnds == lastTick' # lastTick
InSet == { q \in BagToSet(queries) : q.pc = "set" }
InPost == { q \in BagToSet(queries) : q.pc = "post" }

\* C22: firstErr is sticky from the first failure. A call that records a POST
\* without error sets firstErr to zero; one that records a failed POST sets it
\* to the current time when it was zero and leaves it as it is otherwise. So a
\* non-zero firstErr is the time of the first failure recorded since it was
\* last zero: it becomes non-zero only by a recorded failure, and then changes
\* only back to zero, by a recorded success or by a rotation.
C22_Sticky ==
  [][ /\ \A q \in InSet : Recording(q) =>
           IF ~Failed(q) THEN firstErr' = ZeroTime
           ELSE IF firstErr = ZeroTime THEN firstErr' = now
           ELSE firstErr' = firstErr
      /\ firstErr = ZeroTime /\ firstErr' # ZeroTime =>
           \E q \in InSet : Recording(q) /\ Failed(q)
      /\ firstErr # ZeroTime /\ firstErr' # firstErr =>
           /\ firstErr' = ZeroTime
           /\ \/ \E q \in InSet : Recording(q) /\ ~Failed(q)
              \/ client' # client ]_vars

\* A failed POST is about to be recorded, seconds after the failure that
\* firstErr holds, which the last call to return recorded.
C22_Witness ==
  /\ firstErr # ZeroTime
  /\ firstErr < now
  /\ qlast # NoQuery /\ qlast.posts = 1 /\ PostOutcomes[qlast.out].err
  /\ \E q \in InSet : Failed(q)

\* A tick that rotates: the client is replaced by one that no call has read,
\* and firstErr is reset.
Rotates ==
  /\ client' # client
  /\ \A q \in BagToSet(queries) : q.client # client'
  /\ firstErr' = ZeroTime

\* C23 as stated: a tick of Maintain rotates the client exactly when firstErr
\* is non-zero and at least 10 seconds old, and otherwise leaves the client
\* and firstErr unchanged.
C23_Tick ==
  [][ TickEnds =>
        IF firstErr # ZeroTime /\ now - firstErr >= RotateAfter
        THEN Rotates
        ELSE UNCHANGED <<client, firstErr>> ]_vars

\* C23, amended: a tick of Maintain rotates the client exactly when firstErr
\* is non-zero and more than 10 seconds old, and otherwise leaves the client
\* and firstErr unchanged.
C23_TickOlder ==
  [][ TickEnds =>
        IF firstErr # ZeroTime /\ now - firstErr > RotateAfter
        THEN Rotates
        ELSE UNCHANGED <<client, firstErr>> ]_vars

\* A tick has just ended with a firstErr that is exactly 10 seconds old.
C23_Witness ==
  /\ lastTick = now
  /\ mu = ""
  /\ firstErr # ZeroTime
  /\ now - firstErr = RotateAfter

\* The checks that the response hr passes, with u its body unpacked.
Validated(hr, u) ==
  /\ ~hr.err
  /\ hr.StatusCode = StatusOK
  /\ HasDoHType(hr)
  /\ ~hr.BodyErr
  /\ ~u.err

\* C24: Query returns a DNS message only if the request packed, the POST
\* succeeded, the status was 200, the media type of the response was
\* application/dns-message and the body was read and unpacked, and then it
\* returns the body unpacked; a request that does not pack fails with "cannot
\* pack query" without a POST; all other calls return an error and no message.
C24_Query ==
  qlast # NoQuery =>
    /\ qlast.ret.nil <=> qlast.ret.err # ""
    /\ IF ~ClientPacks[qlast.req]
       THEN qlast.ret = QueryError("cannot pack query") /\ qlast.posts = 0
       ELSE /\ qlast.posts = 1
            /\ \A hr \in {PostOutcomes[qlast.out]} : \A u \in {Unpack(hr.Body)} :
                 IF Validated(hr, u)
                 THEN ~qlast.ret.nil /\ qlast.ret.m = u.m
                 ELSE qlast.ret.nil

\* A call has returned the reply that the server sent, while another that
\* was answered 500 is about to return.
C24_Witness ==
  /\ qlast # NoQuery
  /\ ~qlast.ret.nil
  /\ qlast.ret.m.Answer # <<>>
  /\ \E q \in InSet : PostOutcomes[q.out].StatusCode = StatusInternalServerError

\* C25: rotation is a bounded response to persistent failure. With ticks
\* every 2 seconds, a firstErr set by the first failure is never more than 12
\* seconds old: unless a success has cleared it, the tick that finds it more
\* than 10 seconds old swaps in a new client and resets it; and a call that
\* records a successful POST sets firstErr back to zero.
C25_Bounded ==
  /\ [](firstErr # ZeroTime => now - firstErr <= RotateAfter + TickPeriod)
  /\ [][ /\ TickEnds /\ firstErr # ZeroTime /\ now - firstErr > RotateAfter =>
              client' # client /\ firstErr' = ZeroTime
         /\ \A q \in InSet : Recording(q) /\ ~Failed(q) => firstErr' = ZeroTime
         /\ firstErr = ZeroTime /\ (\E q \in InSet : Recording(q) /\ Failed(q)) =>
              firstErr' = now ]_vars

\* Maintain's tick has found a firstErr that is 12 seconds old.
C25_Witness ==
  /\ mu = "maintain"
  /\ firstErr # ZeroTime
  /\ now - firstErr = RotateAfter + TickPeriod

\* C28: mu is never held while a POST is in flight. No call that is in
\* client.Post holds mu, so that with nothing but POSTs under way mu is free
\* for a tick or for another call's setClientError; a rotation leaves the
\* calls under way as they are, each with the client it read; and a call
\* returns having posted to the client it read.
C28_Mutex ==
  /\ [](\A q \in InPost : ~q.holds)
  /\ []((\A q \in BagToSet(queries) : q.pc = "post") /\ mu # "maintain" => mu = "")
  /\ [][ /\ client' # client => queries' = queries
         /\ \A q \in InSet : Recording(q) => qlast'.client = q.client ]_vars

\* Two POSTs in flight on the same client, which a rotation has replaced
\* in the meantime.
C28_Witness ==
  /\ mu = ""
  /\ \E q \in InPost : CopiesIn(q, queries) >= 2 /\ q.client # client

\* The call q is going to return an error and no message.
Rejects(q) == QueryResults[q.out].nil

\* C29 as stated: success is recorded only for a call that passes the checks
\* of the response and returns a message; a call that returns an error does
\* not clear a non-zero firstErr.
C29_Validated ==
  [][ \A q \in InSet : Recording(q) /\ Rejects(q) /\ firstErr # ZeroTime =>
        firstErr' = firstErr ]_vars

\* C29, amended: success is recorded for every call whose POST returns a
\* response, before the response is checked; a call rejected for the status,
\* the Content-Type, the body or the message clears a non-zero firstErr too,
\* and only a call whose POST failed leaves it in place.
C29_Transport ==
  [][ \A q \in InSet : Recording(q) /\ firstErr # ZeroTime =>
        IF Failed(q) THEN firstErr' = firstErr
        ELSE firstErr' = ZeroTime ]_vars

\* With firstErr set by a failed POST, a call whose POST got a response that
\* it is going to reject is about to record it.
C29_Witness ==
  /\ firstErr # ZeroTime
  /\ qlast # NoQuery /\ qlast.posts = 1 /\ PostOutcomes[qlast.out].err
  /\ \E q \in InSet : ~Failed(q) /\ Rejects(q)

\* C27: a reader that was given an RR list by the cache, in the reply of a
\* hit or of the miss that inserted it, never sees it change: while the list
\* that a reader holds is the value of the map, its TTLs are those that the
\* reader was given; a sweep stores its new TTLs in a copy.
C27_NoMutation ==
  \A q \in DOMAIN answer :
    ins[q].lent # <<>> => TTLs(answer[q]) = ins[q].lent

\* An entry that was swept, hit, and swept again: the reply of the hit has
\* the TTL of before the second sweep, and the list it holds is no longer the
\* one in the map.
C27_Witness ==
  /\ last # NoLast
  /\ last.kind = "hit"
  /\ \E q \in DOMAIN answer :
       /\ last.sent.Question = <<q>>
       /\ ins[q].ticks >= 2
       /\ ins[q].obj = ins[q].ticks
       /\ ins[q].lastHit = getTTL(last.reply.Answer)
       /\ getTTL(answer[q]) < ins[q].lastHit
       /\ ins[q].lent = <<>>

\* The name has an entry of the override map as a suffix; it is unqualified
\* and there is an upstream for such names.
MatchesOverride(x) == MatchingKeys(serverOverrides, x) # {}
MatchesUnqualified(x) == unqUpstream # "" /\ DotCount(x) <= 1

\* C30: a single-question request is routed to one of three: to the override
\* server when its name matches an override entry, whether or not it has at
\* most one label; else to the unqualified upstream when one is configured and
\* the name has at most one label; else, matching neither rule, to the
\* backing resolver. Only the one chosen is used.
C30_Precedence ==
  last.route \in {"override", "unqualified", "resolver"} =>
    LET x == last.client.Question[1].Name IN
      /\ last.route = IF MatchesOverride(x) THEN "override"
                      ELSE IF MatchesUnqualified(x) THEN "unqualified"
                      ELSE "resolver"
      /\ last.route = "override" =>
           /\ last.upstream = serverOverrides[MostSpecificKey(serverOverrides, x)]
           /\ last.backCalls = 0 /\ last.kind = "none"
      /\ last.route = "unqualified" =>
           /\ last.upstream = unqUpstream
           /\ last.backCalls = 0 /\ last.kind = "none"
      /\ last.route = "resolver" => last.upstream = ""

\* The upstream operations of the request that completed last: the exchange
\* with an override server or the unqualified upstream, and the calls of the
\* backing resolver.
Exchanges(o) == IF o.route \in {"override", "unqualified"} /\ o.upstream # "" THEN 1 ELSE 0
UpstreamOps(o) == Exchanges(o) + o.backCalls

HandlerStarts == nreq' = nreq + 1
WithID(m, id) == [m EXCEPT !.Id = id]

\* C31: a request that Handler passes to the resolver's Query carries, in
\* place of its ID, the one value that Handler took from newID for it; the
\* requests answered without the resolver (SERVFAIL for the number of
\* questions, override, unqualified) take no ID from newID; and when Query
\* fails, the SERVFAIL is built from the request with its original ID.
C31_UpstreamID ==
  /\ [][ HandlerStarts =>
           IF \E c \in BagToSet(calls') : MissStarts(c)
           THEN /\ newID # <<>>
                /\ newID' = Tail(newID)
                /\ \A c \in BagToSet(calls') : MissStarts(c) =>
                     c.r = WithID(c.orig, Head(newID)) /\ c.oldid = c.orig.Id
           ELSE IF last'.route = "resolver"
           THEN /\ newID # <<>>
                /\ newID' = Tail(newID)
                /\ last'.sent = WithID(last'.client, Head(newID))
           ELSE newID' = newID ]_vars
  /\ [](last.route = "resolver" /\ last.err =>
          last.written = HandleFailed(last.client))

\* The resolver has failed for a request that it was given under another ID
\* than the client's, and the SERVFAIL carries the client's; another request
\* waits for the backing resolver under an ID from newID.
C31_Witness ==
  /\ last.route = "resolver"
  /\ last.err
  /\ last.sent.Id # last.client.Id
  /\ last.written.Id = last.client.Id
  /\ last.written.Rcode = RcodeServerFailure
  /\ \E c \in BagToSet(calls) : c.r.Id # c.orig.Id

\* A message without its answer section.
Header(m) == [f \in (DOMAIN m) \ {"Answer"} |-> m[f]]

\* C32: a hit returns a reply built anew: a response, not authoritative, with
\* rcode NOERROR, the ID and the question of the request, and as its answer
\* the RR list of the cache; a miss returns the reply of the backing resolver
\* with its header as it came, so that the reply of an authority is
\* authoritative on the miss and not on the hits that follow.
C32_HitReply ==
  [][ last' # last =>
        /\ last'.kind = "hit" =>
             /\ last'.reply.Response
             /\ ~last'.reply.Authoritative
             /\ last'.reply.Rcode = RcodeSuccess
             /\ last'.reply.Id = last'.sent.Id
             /\ last'.reply.Question = last'.sent.Question
             /\ last'.reply.Answer = answer[last'.sent.Question[1]]
             /\ ~last'.err
        /\ last'.kind = "miss" /\ ~last'.err =>
             Header(last'.reply) = Header(last'.back) ]_vars

\* A hit has answered, not as an authority, from an entry which the reply of
\* an authority filled.
C32_Witness ==
  /\ last # NoLast
  /\ last.kind = "hit"
  /\ ~last.reply.Authoritative
  /\ last.reply.Answer # <<>>
  /\ \A m \in CacheRequests : \A x \in BackReplies(m) : x.Authoritative

\* C33: a Query for a request with a number of questions other than one
\* bypasses the cache: the request goes to the backing resolver as it is,
\* once; what Query returns is the message and the error that the backing
\* resolver returned; the map is neither read nor written.
C33_Bypass ==
  [][ last' # last /\ last'.route = "query" =>
        /\ last'.kind = "bypass" <=> Len(last'.sent.Question) # 1
        /\ last'.kind = "bypass" =>
             /\ last'.sent = last'.client
             /\ last'.backCalls = 1
             /\ \E res \in BackQuery(last'.sent) :
                  res.reply = last'.back /\ res.err = last'.err
             /\ last'.reply = last'.back
             /\ ~last'.stored
             /\ UNCHANGED <<answer, ins>> ]_vars

\* A request with two questions got the reply of the backing resolver while
\* the cache had an entry for the first of them.
C33_Witness ==
  /\ last # NoLast
  /\ last.kind = "bypass"
  /\ Len(last.sent.Question) = 2
  /\ last.sent.Question[1] \in DOMAIN answer
  /\ ~last.err
  /\ last.reply = last.back
  /\ last.reply.Answer # answer[last.sent.Question[1]]

\* C34: when the backing resolver fails on a miss, Query returns its error
\* (and its message, none), inserts nothing and leaves the map as it is: a
\* question that the map does not hold is still not held, and the same query
\* misses again.
C34_MissError ==
  [][ (\E c \in BagToSet(calls) : MissReturns(c)) /\ last'.back = NoMsg =>
        /\ last'.kind = "miss"
        /\ last'.err
        /\ last'.reply = NoMsg
        /\ ~last'.stored
        /\ last'.backCalls = 1
        /\ UNCHANGED <<answer, ins>> ]_vars

\* A miss has returned the error of the backing resolver, the map holds
\* nothing for its question, and the same query waits for the backing
\* resolver again.
C34_Witness ==
  /\ last # NoLast
  /\ last.kind = "miss"
  /\ last.err
  /\ last.sent.Question[1] \notin DOMAIN answer
  /\ answer # <<>>
  /\ \E c \in BagToSet(calls) : c.r = last.sent

\* C35: on a miss whose reply is cacheable, let ttl be the smaller of the TTL
\* of the first answer RR and maxTTL. If ttl >= minTTL and the cache holds
\* fewer than maxCacheSize entries, then after Query has returned the cache
\* holds for the question the RRs of the reply, every one with TTL ttl, also
\* those whose TTL was lower than the first one's. If ttl < minTTL, nothing is
\* inserted and the reply is returned with the TTLs that it came with.
C35_InsertTTL ==
  [][ \A c \in BagToSet(calls) : MissReturns(c) =>
        LET q == c.r.Question[1]
            ttl == Min(last'.back.Answer[1].Ttl, maxTTL)
        IN ~last'.err /\ Cacheable(q, last'.back) =>
             /\ ttl >= minTTL /\ Cardinality(DOMAIN answer) < maxCacheSize =>
                  /\ q \in DOMAIN answer'
                  /\ Len(answer'[q]) = Len(last'.back.Answer)
                  /\ AllTTL(answer'[q], ttl)
             /\ ttl < minTTL =>
                  /\ answer' = answer
                  /\ last'.reply = last'.back ]_vars

\* The entry of a reply whose first RR had TTL 8000 and whose second had 60:
\* both RRs are stored with maxTTL.
C35_Witness ==
  /\ last # NoLast
  /\ last.kind = "miss"
  /\ last.stored
  /\ Len(last.back.Answer) = 2
  /\ last.back.Answer[2].Ttl < minTTL
  /\ last.back.Answer[1].Ttl > maxTTL
  /\ last.sent.Question[1] \in DOMAIN answer
  /\ Len(answer[last.sent.Question[1]]) = 2
  /\ AllTTL(answer[last.sent.Question[1]], maxTTL)

\* C36: in every reachable state every entry of the cache is a non-empty list
\* of RRs that all carry one TTL, which is greater than 0 and at most maxTTL;
\* the insertion and the maintenance sweep keep it so.
C36_EntryShape ==
  \A q \in DOMAIN answer :
    /\ Len(answer[q]) > 0
    /\ answer[q][1].Ttl > 0
    /\ answer[q][1].Ttl <= maxTTL
    /\ AllTTL(answer[q], answer[q][1].Ttl)

\* An entry of two RRs that came with different TTLs, one of them above
\* maxTTL, has been inserted and has lived through a sweep.
C36_Witness ==
  \E q \in DOMAIN answer :
    /\ ins[q].up > maxTTL
    /\ ins[q].ticks >= 1
    /\ Len(answer[q]) = 2
    /\ AllTTL(answer[q], maxTTL - maintenancePeriod * ins[q].ticks)

\* The miss c comes to its insertion: the backing resolver gave it a
\* cacheable reply whose TTL is at least minTTL.
Attempts(c) ==
  /\ MissReturns(c)
  /\ Len(c.r.Question) = 1
  /\ ~last'.err
  /\ Cacheable(c.r.Question[1], last'.back)
  /\ limitTTL(last'.back.Answer) >= minTTL

\* Another query looked the question of c up while c was on its way: it is
\* still on its way, or the entry it has inserted is in the cache.
Overlaps(c) ==
  \/ c.r.Question[1] \in DOMAIN answer
  \/ \E d \in BagToSet(calls (-) SetToBag({c})) :
       Len(d.r.Question) = 1 /\ d.r.Question[1] = c.r.Question[1]

\* C37 as stated: the later of two insertions of concurrent misses of one
\* question leaves its RR list in the cache.
C37_LaterWins ==
  [][ \A c \in BagToSet(calls) :
        Attempts(c) /\ c.r.Question[1] \in DOMAIN answer =>
          LET q == c.r.Question[1] IN
          /\ last'.backCalls = 1
          /\ q \in DOMAIN answer'
          /\ answer'[q] = setTTL(last'.back.Answer, limitTTL(last'.back.Answer))
          /\ Cardinality(DOMAIN answer') <= maxCacheSize ]_vars

\* C37: concurrent misses of one question are not coalesced: each is a miss,
\* calls the backing resolver once and comes to its insertion. The insertion
\* puts its RR list in the place of whatever the cache held for the question
\* if the cache held fewer than maxCacheSize entries, and otherwise leaves
\* the cache as it was; the cache never holds more than maxCacheSize entries.
C37_Concurrent ==
  [][ \A c \in BagToSet(calls) :
        Attempts(c) /\ Overlaps(c) =>
          LET q == c.r.Question[1] IN
          /\ last'.kind = "miss"
          /\ last'.backCalls = 1
          /\ Cardinality(DOMAIN answer') <= maxCacheSize
          /\ IF Cardinality(DOMAIN answer) < maxCacheSize
             THEN /\ DOMAIN answer' = DOMAIN answer \cup {q}
                  /\ answer'[q] = setTTL(last'.back.Answer, limitTTL(last'.back.Answer))
                  /\ \A k \in DOMAIN answer \ {q} : answer'[k] = answer[k]
             ELSE answer' = answer ]_vars

\* The later of two concurrent misses has put its RR list in the place of
\* the entry of the earlier one, which came with another TTL.
C37_Witness ==
  /\ last # NoLast
  /\ last.kind = "miss"
  /\ last.stored
  /\ last.up > 0
  /\ last.sent.Question[1] \in DOMAIN answer
  /\ ins[last.sent.Question[1]].up # last.up

\* C38: two successive rotations of the client are more than 10 seconds apart.
\* A rotation resets firstErr to zero, so that a firstErr that is set is never
\* older than the last rotation, and the next rotation comes more than 10
\* seconds after that firstErr was set.
C38_Apart ==
  /\ [](firstErr # ZeroTime => firstErr >= rotatedAt)
  /\ [][ client' # client =>
           /\ firstErr # ZeroTime
           /\ now - firstErr > RotateAfter
           /\ firstErr' = ZeroTime
           /\ rotatedAt # ZeroTime => now - rotatedAt > RotateAfter ]_vars

\* The client has been rotated a second time.
C38_Witness ==
  /\ client = newClient(newClient(newClient(0)))
  /\ rotatedAt > StartTime + 2 * RotateAfter
  /\ rotatedAt = now

\* C39: newID is a bounded buffer between one producer and the handlers. It
\* never holds more IDs than its capacity (NewIDCap here, 100 in the code);
\* the producer adds an ID at the end only when it is not full; a receive
\* gives the first ID to one handler and takes it out of the channel, nothing
\* else changes what the handlers hold; and with a producer that keeps
\* running every handler that waits for an ID receives one in the end, however
\* many wait at once.
C39_Channel ==
  /\ [](Len(newID) <= NewIDCap)
  /\ [][ /\ Len(newID') > Len(newID) =>
              /\ Len(newID) < NewIDCap
              /\ \E id \in IDs : newID' = Append(newID, id)
              /\ handlers' = handlers
         /\ handlers' # handlers =>
              \E h \in 1..NumHandlers :
                /\ \A k \in 1..NumHandlers : k # h => handlers'[k] = handlers[k]
                /\ \/ handlers'[h] = [pc |-> "recv", Id |-> 0] /\ newID' = newID
                   \/ /\ handlers[h].pc = "recv"
                      /\ newID # <<>>
                      /\ handlers'[h] = [pc |-> "query", Id |-> Head(newID)]
                      /\ newID' = Tail(newID) ]_vars
  /\ \A h \in 1..NumHandlers :
       (handlers[h].pc = "recv") ~> (handlers[h].pc = "query")

\* More handlers than the channel can hold waited at once, and all of them
\* have received an ID.
C39_Witness ==
  /\ NumHandlers > NewIDCap
  /\ \A h \in 1..NumHandlers : handlers[h].pc = "query" /\ handlers[h].Id \in IDs
  /\ newID = <<>>

\* The counters of the three ways a Query goes.
Ways == {"cacheHits", "cacheMisses", "cacheBypassed"}

\* C40: the counters of the cache account for every query. Once every Query
\* that was started has returned, cacheTotal = cacheHits + cacheMisses +
\* cacheBypassed; a Query adds one to cacheTotal and to exactly one of
\* cacheHits, cacheMisses and cacheBypassed, and nothing else changes these
\* counters; and cacheRecorded is never greater than cacheMisses.
C40_Stats ==
  /\ [](calls = EmptyBag =>
          stats.cacheTotal = stats.cacheHits + stats.cacheMisses + stats.cacheBypassed)
  /\ [](stats.cacheRecorded <= stats.cacheMisses)
  /\ [][ IF nreq' = nreq + 1
         THEN /\ stats'.cacheTotal = stats.cacheTotal + 1
              /\ \E f \in Ways :
                   /\ stats'[f] = stats[f] + 1
                   /\ \A g \in Ways \ {f} : stats'[g] = stats[g]
              /\ stats'.cacheRecorded = stats.cacheRecorded
         ELSE \A f \in Ways \cup {"cacheTotal"} : stats'[f] = stats[f] ]_vars

\* A miss that was recorded, a hit and a bypass have all returned.
C40_Witness ==
  /\ calls = EmptyBag
  /\ stats.cacheTotal = 3
  /\ stats.cacheHits = 1
  /\ stats.cacheMisses = 1
  /\ stats.cacheBypassed = 1
  /\ stats.cacheRecorded = 1

====
